---- MODULE Spec2Model ----
(***************************************************************************)
(* autoclaude: the orchestrator commands (init, run), the coding agent     *)
(* subprocess they start, and the stop-hook bridge commands (_continue,    *)
(* _planner-done, _evaluator-done) the agent's runtime calls on a pause.   *)
(* The filesystem artifacts under .autoclaude/ and .claude/ are the only   *)
(* channel between the three.                                              *)
(***************************************************************************)
EXTENDS Integers, Sequences, FiniteSets, TLC

\* ------------------------------------------------------------------ bounds
\* tasks the backlog can hold
MaxTasks == 2
\* task-loop iterations of one runRun frame
MaxIter == 2
\* evaluator-triggered restarts (nested runRun frames beyond the first)
MaxRestarts == 1
\* bridge invocations counted, one after the other, on one working directory
MaxCalls == 2

\* --------------------------------------------------------- program constants
maxFixRetries == 3
DefaultPruneInterval == 5

\* values of the --prune-interval flag
PruneFlags == {-1, 1}

ContinueCmd == "_continue"
PlannerDoneCmd == "_planner-done"
EvaluatorDoneCmd == "_evaluator-done"
BridgeCmds == {ContinueCmd, PlannerDoneCmd, EvaluatorDoneCmd}

StepCoder == "coder"
StepCritic == "critic"
StepEvaluator == "evaluator"
StepDone == "done"

VerdictApproved == "APPROVED"
VerdictNeedsFixes == "NEEDS_FIXES"
VerdictMinorIssues == "MINOR_ISSUES"
VerdictUnknown == "UNKNOWN"

\* ------------------------------------------------------------ Run State
\* Stats is a pointer: nil until a command sets it
NilStats == [nil |-> TRUE]

ZeroStats ==
  [claudeRuns |-> 0, todosCompleted |-> 0, todosAttempted |-> 0,
   criticApprovals |-> 0, criticRejections |-> 0, criticMinor |-> 0,
   fixAttempts |-> 0, fixSuccesses |-> 0]

\* text is a sequence of characters
NoText == << >>
GoalText == <<"g">>

\* NewState(goal, testCmd, constraints, maxIterations) as init calls it
NewState ==
  [step |-> StepCoder, iteration |-> 1, maxIterations |-> 0,
   goal |-> GoalText, testCmd |-> NoText, constraints |-> NoText,
   lastCommit |-> NoText, retryCount |-> 0, lastError |-> NoText,
   stats |-> NilStats]

StateFields ==
  {"step", "iteration", "maxIterations", "goal", "testCmd", "constraints",
   "lastCommit", "retryCount", "lastError", "stats"}
TextFields == {"goal", "testCmd", "constraints", "lastCommit", "lastError"}
IntFields == {"iteration", "maxIterations", "retryCount"}

\* the fields tagged omitempty
OmitEmpty == {"constraints", "lastCommit", "retryCount", "lastError", "stats"}

\* the zero value of a field's Go type
ZeroValue(k) ==
  IF k \in TextFields THEN NoText
  ELSE IF k \in IntFields THEN 0
  ELSE IF k = "stats" THEN NilStats
  ELSE ""

\* encoding/json: a string is quoted; quote, backslash and < are escaped
EscapeChar(c) ==
  CASE c = "\"" -> <<"\\", "\"">>
    [] c = "\\" -> <<"\\", "\\">>
    [] c = "<" -> <<"\\", "u", "0", "0", "3", "c">>
    [] OTHER -> <<c>>

RECURSIVE EscapeText(_)
EscapeText(cs) ==
  IF cs = << >> THEN << >> ELSE EscapeChar(Head(cs)) \o EscapeText(Tail(cs))

EncodeString(cs) == <<"\"">> \o EscapeText(cs) \o <<"\"">>

HexRune(h) == IF h = <<"0", "0", "3", "c">> THEN "<" ELSE "?"

RECURSIVE UnescapeText(_)
UnescapeText(cs) ==
  IF cs = << >> THEN << >>
  ELSE IF Head(cs) # "\\" THEN <<Head(cs)>> \o UnescapeText(Tail(cs))
  ELSE IF cs[2] = "u"
  THEN <<HexRune(SubSeq(cs, 3, 6))>> \o UnescapeText(SubSeq(cs, 7, Len(cs)))
  ELSE <<cs[2]>> \o UnescapeText(SubSeq(cs, 3, Len(cs)))

DecodeString(q) == UnescapeText(SubSeq(q, 2, Len(q) - 1))

\* variant: the test command is not written
MarshalWithoutTestCmd(st) ==
  [k \in {f \in DOMAIN st : f # "testCmd"
                            /\ ~(f \in OmitEmpty /\ st[f] = ZeroValue(f))} |->
     IF k \in TextFields THEN EncodeString(st[k]) ELSE st[k]]

\* json.MarshalIndent: the document's members, empty omitempty fields left out
Marshal(st) ==
  [k \in {f \in DOMAIN st : ~(f \in OmitEmpty /\ st[f] = ZeroValue(f))} |->
     IF k \in TextFields THEN EncodeString(st[k]) ELSE st[k]]

\* json.Unmarshal into a zero State: members present overwrite their field
Unmarshal(doc) ==
  [k \in StateFields |->
     IF k \in DOMAIN doc
     THEN IF k \in TextFields THEN DecodeString(doc[k]) ELSE doc[k]
     ELSE ZeroValue(k)]

\* state.json: absent, present but unparseable, or a saved record; val is
\* the State its content decodes to
NoStateFile == [exists |-> FALSE, ok |-> FALSE, val |-> NewState]
CorruptStateFile == [exists |-> TRUE, ok |-> FALSE, val |-> NewState]

Save(st) == [exists |-> TRUE, ok |-> TRUE, val |-> Unmarshal(Marshal(st))]

\* variant: the probe always succeeds
ExistsAlways(file) == TRUE

Exists(file) == file.exists

LoadOk(file) == file.exists /\ file.ok

Load(file) == file.val

\* ------------------------------------------------------- text artifacts
\* a file is [exists, data]; data is the sequence of its characters
NoFile == [exists |-> FALSE, data |-> << >>]
File(chars) == [exists |-> TRUE, data |-> chars]

WhiteSpace == {" ", "\n", "\t"}

RECURSIVE TrimLeft(_)
TrimLeft(cs) ==
  IF cs # << >> /\ Head(cs) \in WhiteSpace THEN TrimLeft(Tail(cs)) ELSE cs

RECURSIVE TrimRight(_)
TrimRight(cs) ==
  IF cs # << >> /\ cs[Len(cs)] \in WhiteSpace
  THEN TrimRight(SubSeq(cs, 1, Len(cs) - 1))
  ELSE cs

TrimSpace(cs) == TrimRight(TrimLeft(cs))

HasPrefix(cs, p) == Len(cs) >= Len(p) /\ SubSeq(cs, 1, Len(p)) = p

YesChars == <<"y", "e", "s">>
NoChars == <<"n", "o">>
ApprovedChars == <<"A", "P", "P", "R", "O", "V", "E", "D">>
NeedsFixesChars == <<"N", "E", "E", "D", "S", "_", "F", "I", "X", "E", "S">>
MinorIssuesChars ==
  <<"M", "I", "N", "O", "R", "_", "I", "S", "S", "U", "E", "S">>

\* what the agent writes into pending_tasks and critic_verdict.md
PendingYes == File(YesChars \o <<"\n">>)
PendingNo == File(NoChars \o <<"\n">>)
VerdictTexts ==
  {ApprovedChars \o <<"\n">>,
   NeedsFixesChars \o <<"\n", "f", "i", "x">>,
   MinorIssuesChars \o <<"\n">>,
   <<"L", "G", "T", "M">>}

\* variant: the content only has to begin with yes
hasPendingTasksPrefix(file) ==
  file.exists /\ HasPrefix(TrimSpace(file.data), YesChars)

hasPendingTasksOf(file) == file.exists /\ TrimSpace(file.data) = YesChars

\* variant: the verdict file is left in place
ClearCriticVerdictKept(file) == file

\* ClearCriticVerdict: os.Remove of the verdict file
ClearCriticVerdict(file) == NoFile

\* variant: a missing verdict counts as an approval
GetCriticVerdictLenient(file) ==
  IF ~file.exists THEN VerdictApproved
  ELSE IF HasPrefix(file.data, NeedsFixesChars) THEN VerdictNeedsFixes
  ELSE IF HasPrefix(file.data, MinorIssuesChars) THEN VerdictMinorIssues
  ELSE IF HasPrefix(file.data, ApprovedChars) THEN VerdictApproved
  ELSE VerdictUnknown

GetCriticVerdictOf(file) ==
  IF ~file.exists THEN VerdictUnknown
  ELSE IF HasPrefix(file.data, NeedsFixesChars) THEN VerdictNeedsFixes
  ELSE IF HasPrefix(file.data, MinorIssuesChars) THEN VerdictMinorIssues
  ELSE IF HasPrefix(file.data, ApprovedChars) THEN VerdictApproved
  ELSE VerdictUnknown

\* ------------------------------------------------- settings: Stop hooks
\* hooks.Stop is a sequence of hook groups, a group a sequence of commands
HasCommand(hs, cmd) ==
  \E i \in 1..Len(hs) : \E j \in 1..Len(hs[i]) : hs[i][j] = cmd

RECURSIVE DropCommand(_, _)
DropCommand(g, cmd) ==
  IF g = << >> THEN << >>
  ELSE IF Head(g) = cmd THEN DropCommand(Tail(g), cmd)
  ELSE <<Head(g)>> \o DropCommand(Tail(g), cmd)

RECURSIVE filterOutCommand(_, _)
filterOutCommand(hs, cmd) ==
  IF hs = << >> THEN << >>
  ELSE LET g == DropCommand(Head(hs), cmd)
           rest == filterOutCommand(Tail(hs), cmd)
       IN IF g = << >> THEN rest ELSE <<g>> \o rest

AddStopHook(hs) ==
  IF HasCommand(hs, ContinueCmd) THEN hs ELSE Append(hs, <<ContinueCmd>>)

SetupStopHook(hs) == AddStopHook(hs)

RemoveHook(hs, cmd) == IF Len(hs) = 0 THEN hs ELSE filterOutCommand(hs, cmd)

RemoveStopHook(hs) == RemoveHook(hs, ContinueCmd)

RemovePlannerStopHook(hs) == RemoveHook(hs, PlannerDoneCmd)

SetupPlannerStopHook(hs) ==
  Append(RemovePlannerStopHook(hs), <<PlannerDoneCmd>>)

RemoveEvaluatorStopHook(hs) == RemoveHook(hs, EvaluatorDoneCmd)

SetupEvaluatorStopHook(hs) ==
  Append(RemoveEvaluatorStopHook(hs), <<EvaluatorDoneCmd>>)

\* .claude/settings.json as written by the user or by Save: a Stop hook has
\* its command and may have fields the Hook struct does not declare
\* (timeout); 0 stands for no such field
Timeouts == {0, 30}
FileHook(cmd, t) == [command |-> cmd, timeout |-> t]

\* LoadExisting: json.Unmarshal into ClaudeSettings keeps of every Stop hook
\* the fields of the Hook struct
LoadExisting(file) ==
  [i \in 1..Len(file) |-> [j \in 1..Len(file[i]) |-> file[i][j].command]]

\* config.Save: the structs are marshalled
SaveSettings(hs) ==
  [i \in 1..Len(hs) |-> [j \in 1..Len(hs[i]) |-> FileHook(hs[i][j], 0)]]

\* SetupStopHook and RemoveStopHook on the settings file
SetupStopHookFile(file) == SaveSettings(AddStopHook(LoadExisting(file)))

RemoveStopHookFile(file) ==
  IF Len(LoadExisting(file)) = 0 THEN file
  ELSE SaveSettings(filterOutCommand(LoadExisting(file), ContinueCmd))

\* the bridge commands the agent's runtime runs on a pause
Registered(hs) == {c \in BridgeCmds : HasCommand(hs, c)}

\* variant: the marker file is left in place
RemoveMarkerKept(marker) == marker

\* RemovePlanningComplete, RemoveEvaluationComplete: the marker is gone
RemoveMarker(marker) == FALSE

\* ------------------------------------------------------------ processes
AgentKinds == {"planner", "coder", "critic", "fixer", "evaluator", "pruner"}

NoPid == 0
\* the agent subprocess's identifier, and one of a process long gone
AgentPid == 1
StalePid == 2
NoPidFile == [exists |-> FALSE, valid |-> FALSE, pid |-> NoPid]
PidFileOf(p) == [exists |-> TRUE, valid |-> TRUE, pid |-> p]
InvalidPidFile == [exists |-> TRUE, valid |-> FALSE, pid |-> NoPid]

\* the agent subprocess: st is none, running, paused or exited
NoAgent ==
  [kind |-> "none", st |-> "none", pid |-> NoPid, did |-> FALSE]
NewAgent(kind) ==
  [kind |-> kind, st |-> "running", pid |-> AgentPid, did |-> FALSE]

\* stdin of a bridge command
HookInputs ==
  {[kind |-> "readerr", sha |-> FALSE], [kind |-> "empty", sha |-> FALSE],
   [kind |-> "garbage", sha |-> FALSE], [kind |-> "json", sha |-> FALSE],
   [kind |-> "json", sha |-> TRUE]}
AgentInputs == {i \in HookInputs : i.kind = "json"}

\* one invocation of a bridge command
IdleBridge ==
  [pc |-> "idle", input |-> [kind |-> "empty", sha |-> FALSE],
   loaded |-> FALSE, commit |-> "none", killed |-> FALSE, sig |-> NoPid,
   out |-> << >>, ret |-> "none"]
NewBridge(input) == [IdleBridge EXCEPT !.pc = "start", !.input = input]

\* StopHookOutput as written to stdout
outputAllow == [decision |-> "", reason |-> ""]
outputBlock(reason) == [decision |-> "block", reason |-> reason]

ZeroCount == [k \in AgentKinds |-> 0]
NoGhost ==
  [inv |-> ZeroCount, tinv |-> ZeroCount, verdicts |-> << >>, n0 |-> 0,
   c0 |-> 0, allApproved |-> TRUE, oneEach |-> TRUE, calls |-> 0]

VARIABLES
  pc,               \* where the orchestrator command is
  frames,           \* nested runRun calls
  s,                \* the command's in-memory State
  retry,            \* runRun: retry
  wasApproved,      \* runRun: wasApproved
  runPruneInterval, \* --prune-interval
  result,           \* what the command returned
  disk,             \* .autoclaude/state.json
  pendingFile,      \* .autoclaude/pending_tasks
  verdictFile,      \* .autoclaude/critic_verdict.md
  hooks,            \* .claude/settings.local.json: hooks.Stop
  evalMarker,       \* .autoclaude/evaluation_complete exists
  planMarker,       \* .autoclaude/planning_complete exists
  pidFile,          \* .autoclaude/claude.pid
  dirty,            \* git: the working tree has uncommitted changes
  headMoved,        \* git: HEAD is not the hash the phase began at
  tree,             \* git: HEAD, index and working tree per path
  agent,            \* the agent subprocess
  backlog,          \* pending tasks in the agent's task list
  bridge,           \* the pause's bridge invocations, by command
  g                 \* history: invocations, verdicts read

orchVars == <<pc, frames, s, retry, wasApproved, runPruneInterval, result>>
fileVars ==
  <<disk, pendingFile, verdictFile, hooks, evalMarker, planMarker, pidFile>>
gitVars == <<dirty, headMoved, tree>>
vars ==
  <<pc, frames, s, retry, wasApproved, runPruneInterval, result, disk,
    pendingFile, verdictFile, hooks, evalMarker, planMarker, pidFile, dirty,
    headMoved, tree, agent, backlog, bridge, g>>

\* variant: pending work is never seen
hasPendingTasksNever == FALSE

hasPendingTasks == hasPendingTasksOf(pendingFile)
GetCriticVerdict == GetCriticVerdictOf(verdictFile)

Alive == agent.st \in {"running", "paused"}
BridgesQuiet == \A c \in BridgeCmds : bridge[c].pc \in {"idle", "done"}

\* ------------------------------------------------------------ the git tree
\* paths of the repository and what a path holds ("none": no such file)
Paths == {"tracked.txt", "untracked.txt"}

Contents == {"none", "original", "modified"}

Snapshots == [Paths -> Contents]

\* the repository as the tests set it up: one committed file, nothing else
CleanTree ==
  LET snap == [p \in Paths |->
                 IF p = "tracked.txt" THEN "original" ELSE "none"]
  IN [head |-> snap, index |-> snap, work |-> snap]

\* git status --porcelain prints something
hasUncommittedChanges(t) == t.index # t.head \/ t.work # t.index

\* git add -A
gitAddAll(t) == [t EXCEPT !.index = t.work]

\* git commit
gitCommitIndex(t) == [t EXCEPT !.head = t.index]

\* git checkout . : every path of the index gets the index's content
gitCheckoutAll(t) ==
  [t EXCEPT !.work = [p \in Paths |-> IF t.index[p] # "none"
                                        THEN t.index[p]
                                        ELSE t.work[p]]]

\* git clean -fd : every path that is not in the index is removed
gitCleanUntracked(t) ==
  [t EXCEPT !.work = [p \in Paths |-> IF t.index[p] = "none"
                                        THEN "none"
                                        ELSE t.work[p]]]

\* cleanWorkingDirectory: git checkout . and then git clean -fd
cleanWorkingDirectory(t) == gitCleanUntracked(gitCheckoutAll(t))

\* a working directory: fresh, or initialised by init with a planned backlog
Init ==
  /\ pc = "idle"
  /\ frames = 0
  /\ s = NewState
  /\ retry = 0
  /\ wasApproved = FALSE
  /\ runPruneInterval = 0
  /\ result = "none"
  /\ disk \in {NoStateFile, Save(NewState)}
  /\ backlog \in 0..MaxTasks
  /\ pendingFile \in
       IF ~disk.exists THEN {NoFile}
       ELSE IF backlog > 0 THEN {PendingYes} ELSE {PendingNo, NoFile}
  /\ ~disk.exists => backlog = 0
  /\ verdictFile = NoFile
  /\ hooks = << >>
  /\ evalMarker = FALSE
  /\ planMarker = FALSE
  /\ pidFile = NoPidFile
  /\ dirty = FALSE
  /\ headMoved = FALSE
  /\ tree = CleanTree
  /\ agent = NoAgent
  /\ bridge = [c \in BridgeCmds |-> IdleBridge]
  /\ g = NoGhost

\* ------------------------------------------------ orchestrator: helpers
PruneIntervalOf(flag) ==
  IF flag > 0 THEN flag ELSE IF flag = -1 THEN 0 ELSE DefaultPruneInterval

ShouldPrune(st, interval) ==
  /\ interval > 0
  /\ st.stats.todosCompleted > 0
  /\ st.stats.todosCompleted % interval = 0

\* runClaudePhase: the invocation is counted, then the agent is started
runClaudePhase(st) == [st EXCEPT !.stats.claudeRuns = @ + 1]

\* variant: one review more than the ceiling
RetryLoopCondInclusive(r) == r <= maxFixRetries

RetryLoopCond(r) == r < maxFixRetries

\* variant: the fixer also runs after the last review
FixerAllowedOnLast(r) == r < maxFixRetries

FixerAllowed(r) == r < maxFixRetries - 1

\* variant: the first fix is not counted
FixSucceededLate(r) == r > 1

FixSucceeded(r) == r > 0

\* the State runRun works on after its reset
ResetForRun(st) ==
  [st EXCEPT !.step = StepCoder, !.iteration = 0, !.retryCount = 0,
             !.lastError = NoText, !.stats = ZeroStats]

\* variant: the task taken is not counted as attempted
CoderStateUncounted(st) ==
  [st EXCEPT !.iteration = @ + 1, !.retryCount = 0, !.step = StepCoder]

\* the next coder phase's State: as saved, before the invocation is counted
CoderState(st) ==
  [st EXCEPT !.iteration = @ + 1, !.retryCount = 0,
             !.stats.todosAttempted = @ + 1, !.step = StepCoder]

\* variant: the critic phase is not recorded
CriticStateStale(st, r) == [st EXCEPT !.retryCount = r]

CriticState(st, r) == [st EXCEPT !.step = StepCritic, !.retryCount = r]

\* variant: an accepted task is not counted as completed
AcceptedUncounted(st, field, r) ==
  LET a == [st EXCEPT !.stats[field] = @ + 1]
  IN IF FixSucceeded(r) THEN [a EXCEPT !.stats.fixSuccesses = @ + 1] ELSE a

\* the verdict's effect on the stats
Accepted(st, field, r) ==
  LET a == [st EXCEPT !.stats[field] = @ + 1,
                      !.stats.todosCompleted = @ + 1]
  IN IF FixSucceeded(r) THEN [a EXCEPT !.stats.fixSuccesses = @ + 1] ELSE a

Rejected(st) == [st EXCEPT !.stats.criticRejections = @ + 1]

\* checkCommitCreated: head unchanged and the tree dirty: forceCommit
CommitForced(ok) == ~headMoved /\ dirty /\ ok

\* commitBefore goes out of scope with the check
checkCommitCreated(ok) ==
  /\ dirty' = IF CommitForced(ok) THEN FALSE ELSE dirty
  /\ headMoved' = FALSE
  /\ UNCHANGED tree

\* RunInteractive up to cmd.Wait: start the subprocess, write the PID file
StartAgent(kind) ==
  /\ agent' = NewAgent(kind)
  /\ pidFile' = PidFileOf(AgentPid)

\* variant: the wait returns while the subprocess is alive
ReapedEarly ==
  /\ BridgesQuiet
  /\ agent' = NoAgent
  /\ pidFile' = NoPidFile
  /\ bridge' = [c \in BridgeCmds |-> IdleBridge]

\* RunInteractive after cmd.Wait: the PID file is removed; what cmd.Wait
\* returned (waitErr) is the caller's to look at
Reaped ==
  /\ agent.st = "exited"
  /\ BridgesQuiet
  /\ agent' = NoAgent
  /\ pidFile' = NoPidFile
  /\ bridge' = [c \in BridgeCmds |-> IdleBridge]

\* the history of the task at hand ends with the task
TaskDone(gg) == [gg EXCEPT !.tinv = ZeroCount, !.verdicts = << >>, !.c0 = 0]

Counted(gg, kind) ==
  [gg EXCEPT !.inv[kind] = @ + 1, !.tinv[kind] = @ + 1]

\* variant: no RemoveStopHook is deferred
DeferredNone(hs) == hs

\* the deferred RemoveStopHook of every runRun frame that got that far
Deferred(hs) == IF frames > 0 THEN RemoveStopHook(hs) ELSE hs

Return(res) ==
  /\ pc' = "exit"
  /\ result' = res
  /\ frames' = 0

\* ------------------------------------------------------ orchestrator: run
\* runRun up to the task loop (run.go 48-113); installed: CheckInstalled
\* finds the claude CLI
runRunEntry(installed) ==
  /\ UNCHANGED <<pendingFile, verdictFile, evalMarker, planMarker, pidFile,
                 gitVars, agent, backlog, bridge, retry, wasApproved>>
  /\ IF ~installed
     THEN /\ Return("claude not installed")
          /\ hooks' = Deferred(hooks)
          /\ UNCHANGED <<s, disk>>
     ELSE IF ~Exists(disk)
     THEN /\ Return("not initialized")
          /\ hooks' = Deferred(hooks)
          /\ UNCHANGED <<s, disk>>
     ELSE IF ~LoadOk(disk)
     THEN /\ Return("failed to load state")
          /\ hooks' = Deferred(hooks)
          /\ UNCHANGED <<s, disk>>
     ELSE /\ s' = ResetForRun(disk.val)
          /\ disk' = Save(s')
          /\ hooks' = SetupStopHook(hooks)
          /\ frames' = frames + 1
          /\ pc' = "loopHead"
          /\ UNCHANGED result

RunCmd ==
  /\ pc = "idle"
  /\ \E f \in PruneFlags : runPruneInterval' = f
  /\ g' = [NoGhost EXCEPT !.n0 = backlog]
  /\ \E installed \in BOOLEAN : runRunEntry(installed)

\* the recursive runRun: the claude CLI, run a moment ago, is still found
Restart ==
  /\ pc = "restart"
  /\ g' = [NoGhost EXCEPT !.n0 = backlog]
  /\ UNCHANGED runPruneInterval
  /\ runRunEntry(TRUE)

LoopPending ==
  /\ pc = "loopHead"
  /\ hasPendingTasks
  /\ s.iteration < MaxIter
  /\ disk' = Save(CoderState(s))
  /\ s' = runClaudePhase(CoderState(s))
  /\ StartAgent("coder")
  /\ headMoved' = FALSE
  /\ UNCHANGED tree
  /\ pc' = "coderWait"
  /\ g' = Counted([g EXCEPT !.tinv = ZeroCount, !.verdicts = << >>,
                            !.c0 = s.stats.todosCompleted], "coder")
  /\ UNCHANGED <<frames, retry, wasApproved, runPruneInterval, result,
                 pendingFile, verdictFile, hooks, evalMarker, planMarker,
                 dirty, backlog, bridge>>

LoopEmpty ==
  /\ pc = "loopHead"
  /\ ~hasPendingTasks
  /\ disk' = Save([s EXCEPT !.step = StepEvaluator])
  /\ evalMarker' = RemoveMarker(evalMarker)
  /\ UNCHANGED <<retry, wasApproved, runPruneInterval, pendingFile,
                 verdictFile, planMarker, gitVars, backlog, bridge>>
  /\ \E setupOk \in BOOLEAN :
     IF setupOk
     THEN /\ hooks' = SetupEvaluatorStopHook(hooks)
          /\ s' = runClaudePhase([s EXCEPT !.step = StepEvaluator])
          /\ StartAgent("evaluator")
          /\ pc' = "evalWait"
          /\ g' = Counted(g, "evaluator")
          /\ UNCHANGED <<frames, result>>
     ELSE /\ Return("failed to setup evaluator stop hook")
          /\ hooks' = Deferred(RemoveEvaluatorStopHook(hooks))
          /\ s' = [s EXCEPT !.step = StepEvaluator]
          /\ UNCHANGED <<agent, pidFile, g>>

CoderReturn ==
  /\ pc = "coderWait"
  /\ Reaped
  /\ UNCHANGED <<disk, pendingFile, verdictFile, evalMarker, planMarker,
                 backlog>>
  /\ \E waitErr \in BOOLEAN :
     IF waitErr
     THEN /\ Return("coder phase failed")
          /\ hooks' = Deferred(hooks)
          /\ UNCHANGED <<s, gitVars, g, retry, wasApproved, runPruneInterval>>
     ELSE /\ \E ok \in BOOLEAN : checkCommitCreated(ok)
          /\ retry' = 0
          /\ wasApproved' = FALSE
          /\ pc' = "criticHead"
          /\ g' = [g EXCEPT !.oneEach = @ /\ agent.did]
          /\ UNCHANGED <<frames, s, runPruneInterval, result, hooks>>

CriticStart ==
  /\ pc = "criticHead"
  /\ RetryLoopCond(retry)
  /\ disk' = Save(CriticState(s, retry))
  /\ verdictFile' = ClearCriticVerdict(verdictFile)
  /\ s' = runClaudePhase(CriticState(s, retry))
  /\ StartAgent("critic")
  /\ pc' = "criticWait"
  /\ g' = Counted(g, "critic")
  /\ UNCHANGED <<frames, retry, wasApproved, runPruneInterval, result,
                 pendingFile, hooks, evalMarker, planMarker, gitVars, backlog,
                 bridge>>

RetriesExhausted ==
  /\ pc = "criticHead"
  /\ ~RetryLoopCond(retry)
  /\ pc' = "nextTask"
  /\ UNCHANGED <<frames, s, retry, wasApproved, runPruneInterval, result,
                 fileVars, gitVars, agent, backlog, bridge, g>>

CriticReturn ==
  /\ pc = "criticWait"
  /\ Reaped
  /\ UNCHANGED <<disk, pendingFile, verdictFile, evalMarker, planMarker,
                 gitVars, backlog>>
  /\ \E waitErr \in BOOLEAN :
     IF waitErr
     THEN /\ Return("critic phase failed")
          /\ hooks' = Deferred(hooks)
          /\ UNCHANGED <<s, g, retry, wasApproved, runPruneInterval>>
     ELSE LET v == GetCriticVerdict IN
          /\ g' = [g EXCEPT !.verdicts = Append(@, v),
                            !.allApproved = @ /\ v = VerdictApproved]
          /\ UNCHANGED <<frames, runPruneInterval, result, hooks>>
          /\ CASE v = VerdictApproved ->
                    /\ s' = Accepted(s, "criticApprovals", retry)
                    /\ wasApproved' = TRUE
                    /\ pc' = "nextTask"
                    /\ UNCHANGED retry
               [] v = VerdictMinorIssues ->
                    /\ s' = Accepted(s, "criticMinor", retry)
                    /\ wasApproved' = TRUE
                    /\ pc' = "nextTask"
                    /\ UNCHANGED retry
               [] v = VerdictNeedsFixes ->
                    /\ s' = Rejected(s)
                    /\ IF FixerAllowed(retry)
                       THEN pc' = "fixerStart" /\ UNCHANGED retry
                       ELSE pc' = "criticHead" /\ retry' = retry + 1
                    /\ UNCHANGED wasApproved
               [] OTHER ->
                    /\ pc' = "criticHead"
                    /\ retry' = retry + 1
                    /\ UNCHANGED <<s, wasApproved>>

FixerStart ==
  /\ pc = "fixerStart"
  /\ disk' = Save([s EXCEPT !.step = StepCoder])
  /\ s' = runClaudePhase([s EXCEPT !.step = StepCoder,
                                   !.stats.fixAttempts = @ + 1])
  /\ StartAgent("fixer")
  /\ headMoved' = FALSE
  /\ UNCHANGED tree
  /\ pc' = "fixerWait"
  /\ g' = Counted(g, "fixer")
  /\ UNCHANGED <<frames, retry, wasApproved, runPruneInterval, result,
                 pendingFile, verdictFile, hooks, evalMarker, planMarker,
                 dirty, backlog, bridge>>

FixerReturn ==
  /\ pc = "fixerWait"
  /\ Reaped
  /\ UNCHANGED <<s, disk, pendingFile, verdictFile, evalMarker, planMarker,
                 backlog, g>>
  /\ \E waitErr \in BOOLEAN :
     IF waitErr
     THEN /\ Return("fixer phase failed")
          /\ hooks' = Deferred(hooks)
          /\ UNCHANGED <<gitVars, retry, wasApproved, runPruneInterval>>
     ELSE /\ \E ok \in BOOLEAN : checkCommitCreated(ok)
          /\ retry' = retry + 1
          /\ pc' = "criticHead"
          /\ UNCHANGED <<frames, wasApproved, runPruneInterval, result, hooks>>

NextTaskPrune ==
  /\ pc = "nextTask"
  /\ ShouldPrune(s, PruneIntervalOf(runPruneInterval))
  /\ disk' = Save(s)
  /\ StartAgent("pruner")
  /\ pc' = "prunerWait"
  /\ g' = Counted(TaskDone(g), "pruner")
  /\ UNCHANGED <<frames, s, retry, wasApproved, runPruneInterval, result,
                 pendingFile, verdictFile, hooks, evalMarker, planMarker,
                 gitVars, backlog, bridge>>

\* variant: the loop stays at the task boundary
NextTaskLoopStays ==
  /\ pc = "nextTask"
  /\ ~ShouldPrune(s, PruneIntervalOf(runPruneInterval))
  /\ disk' = Save(s)
  /\ pc' = "nextTask"
  /\ g' = TaskDone(g)
  /\ UNCHANGED <<frames, s, retry, wasApproved, runPruneInterval, result,
                 pendingFile, verdictFile, hooks, evalMarker, planMarker,
                 pidFile, gitVars, agent, backlog, bridge>>

NextTaskLoop ==
  /\ pc = "nextTask"
  /\ ~ShouldPrune(s, PruneIntervalOf(runPruneInterval))
  /\ disk' = Save(s)
  /\ pc' = "loopHead"
  /\ g' = TaskDone(g)
  /\ UNCHANGED <<frames, s, retry, wasApproved, runPruneInterval, result,
                 pendingFile, verdictFile, hooks, evalMarker, planMarker,
                 pidFile, gitVars, agent, backlog, bridge>>

PrunerReturn ==
  /\ pc = "prunerWait"
  /\ Reaped
  /\ pc' = "loopHead"
  /\ UNCHANGED <<frames, s, retry, wasApproved, runPruneInterval, result,
                 disk, pendingFile, verdictFile, hooks, evalMarker,
                 planMarker, gitVars, backlog, g>>

EvaluatorReturn ==
  /\ pc = "evalWait"
  /\ Reaped
  /\ evalMarker' = RemoveMarker(evalMarker)
  /\ UNCHANGED <<pendingFile, verdictFile, planMarker, gitVars, backlog, g>>
  /\ \E waitErr \in BOOLEAN :
     IF waitErr
     THEN /\ Return("evaluator phase failed")
          /\ hooks' = Deferred(RemoveEvaluatorStopHook(hooks))
          /\ UNCHANGED <<s, disk, retry, wasApproved, runPruneInterval>>
     ELSE IF hasPendingTasks
     THEN /\ frames <= MaxRestarts
          /\ pc' = "restart"
          /\ hooks' = RemoveEvaluatorStopHook(hooks)
          /\ UNCHANGED <<frames, s, retry, wasApproved, runPruneInterval,
                         result, disk>>
     ELSE /\ s' = [s EXCEPT !.step = StepDone]
          /\ disk' = Save(s')
          /\ Return("ok")
          /\ hooks' = Deferred(RemoveEvaluatorStopHook(hooks))
          /\ UNCHANGED <<retry, wasApproved, runPruneInterval>>

\* --------------------------------------------------- orchestrator: resume
\* TODO.md has an unchecked box
hasIncompleteTodos == backlog > 0

\* the State resume works on: as loaded, Stats initialised if nil
ResumeState ==
  LET st == Load(disk)
  IN IF st.stats = NilStats THEN [st EXCEPT !.stats = ZeroStats] ELSE st

\* runResume's returns before any phase (part_006 30-64)
ResumeRefused ==
  /\ pc = "idle"
  /\ \E installed \in BOOLEAN, cleanOk \in BOOLEAN :
       LET why == IF ~installed THEN "claude not installed"
                  ELSE IF ~Exists(disk) THEN "not initialized"
                  ELSE IF ~LoadOk(disk) THEN "failed to load state"
                  ELSE IF Load(disk).step = StepDone
                  THEN "previous run completed"
                  ELSE IF dirty /\ ~cleanOk
                  THEN "failed to clean working directory"
                  ELSE "none"
       IN /\ why # "none"
          /\ Return(why)
          /\ s' = IF installed /\ LoadOk(disk) THEN ResumeState ELSE s
  /\ UNCHANGED <<retry, wasApproved, runPruneInterval, fileVars, gitVars,
                 agent, backlog, bridge, g>>

\* runResume up to the resumed phase's agent: the tree is cleaned, the stop
\* hook installed, the invocation counted (part_006 53-101)
ResumeBegin(step, kind) ==
  /\ pc = "idle"
  /\ LoadOk(disk)
  /\ Load(disk).step = step
  /\ dirty' = FALSE
  /\ headMoved' = FALSE
  /\ UNCHANGED tree
  /\ s' = runClaudePhase(ResumeState)
  /\ StartAgent(kind)
  /\ g' = Counted([NoGhost EXCEPT !.n0 = backlog], kind)
  /\ UNCHANGED <<frames, retry, wasApproved, runPruneInterval, result, disk,
                 pendingFile, planMarker, backlog, bridge>>

ResumeCoder ==
  /\ ResumeBegin(StepCoder, "coder")
  /\ hooks' = SetupStopHook(hooks)
  /\ pc' = "resumeCoderWait"
  /\ UNCHANGED <<verdictFile, evalMarker>>

ResumeCritic ==
  /\ ResumeBegin(StepCritic, "critic")
  /\ hooks' = SetupStopHook(hooks)
  /\ verdictFile' = ClearCriticVerdict(verdictFile)
  /\ pc' = "resumeCriticWait"
  /\ UNCHANGED evalMarker

ResumeEvaluator ==
  /\ ResumeBegin(StepEvaluator, "evaluator")
  /\ hooks' = SetupEvaluatorStopHook(SetupStopHook(hooks))
  /\ evalMarker' = RemoveMarker(evalMarker)
  /\ pc' = "resumeEvalWait"
  /\ UNCHANGED verdictFile

\* a return of runResume or continueRunLoop: the deferred RemoveStopHook
ResumeReturn(res) ==
  /\ Return(res)
  /\ hooks' = RemoveStopHook(hooks)

ResumeCoderReturn ==
  /\ pc = "resumeCoderWait"
  /\ Reaped
  /\ UNCHANGED <<s, disk, pendingFile, verdictFile, evalMarker, planMarker,
                 backlog, g, retry, wasApproved, runPruneInterval>>
  /\ \E waitErr \in BOOLEAN :
     IF waitErr
     THEN ResumeReturn("coder phase failed") /\ UNCHANGED gitVars
     ELSE /\ \E ok \in BOOLEAN : checkCommitCreated(ok)
          /\ pc' = "crlHead"
          /\ UNCHANGED <<frames, result, hooks>>

\* the resumed critic's verdict (part_006 114-136)
ResumeCriticReturn ==
  /\ pc = "resumeCriticWait"
  /\ Reaped
  /\ UNCHANGED <<disk, pendingFile, verdictFile, evalMarker, planMarker,
                 gitVars, backlog, retry, wasApproved, runPruneInterval>>
  /\ \E waitErr \in BOOLEAN :
     IF waitErr
     THEN ResumeReturn("critic phase failed") /\ UNCHANGED <<s, g>>
     ELSE LET v == GetCriticVerdict IN
          /\ g' = [g EXCEPT !.verdicts = Append(@, v)]
          /\ pc' = IF v = VerdictNeedsFixes THEN "resumeFixerStart"
                   ELSE "crlHead"
          /\ s' = IF v \in {VerdictApproved, VerdictMinorIssues}
                  THEN [s EXCEPT !.stats.todosCompleted = @ + 1]
                  ELSE s
          /\ UNCHANGED <<frames, result, hooks>>

ResumeFixerStart ==
  /\ pc = "resumeFixerStart"
  /\ disk' = Save([s EXCEPT !.step = StepCoder])
  /\ s' = runClaudePhase([s EXCEPT !.step = StepCoder,
                                   !.stats.fixAttempts = @ + 1])
  /\ StartAgent("fixer")
  /\ headMoved' = FALSE
  /\ UNCHANGED tree
  /\ pc' = "resumeFixerWait"
  /\ g' = Counted(g, "fixer")
  /\ UNCHANGED <<frames, retry, wasApproved, runPruneInterval, result,
                 pendingFile, verdictFile, hooks, evalMarker, planMarker,
                 dirty, backlog, bridge>>

ResumeFixerReturn ==
  /\ pc = "resumeFixerWait"
  /\ Reaped
  /\ UNCHANGED <<s, disk, pendingFile, verdictFile, evalMarker, planMarker,
                 backlog, g, retry, wasApproved, runPruneInterval>>
  /\ \E waitErr \in BOOLEAN :
     IF waitErr
     THEN ResumeReturn("fixer phase failed") /\ UNCHANGED gitVars
     ELSE /\ \E ok \in BOOLEAN : checkCommitCreated(ok)
          /\ pc' = "crlHead"
          /\ UNCHANGED <<frames, result, hooks>>

ResumeEvaluatorReturn ==
  /\ pc = "resumeEvalWait"
  /\ Reaped
  /\ evalMarker' = RemoveMarker(evalMarker)
  /\ UNCHANGED <<s, disk, pendingFile, verdictFile, planMarker, gitVars,
                 backlog, g, retry, wasApproved, runPruneInterval>>
  /\ \E waitErr \in BOOLEAN :
     IF waitErr
     THEN /\ Return("evaluator phase failed")
          /\ hooks' = RemoveStopHook(RemoveEvaluatorStopHook(hooks))
     ELSE /\ pc' = "crlHead"
          /\ hooks' = RemoveEvaluatorStopHook(hooks)
          /\ UNCHANGED <<frames, result>>

\* continueRunLoop (part_006 169-311)
ContinueLoopPending ==
  /\ pc = "crlHead"
  /\ hasIncompleteTodos
  /\ s.iteration < MaxIter
  /\ disk' = Save(CoderState(s))
  /\ s' = runClaudePhase(CoderState(s))
  /\ StartAgent("coder")
  /\ headMoved' = FALSE
  /\ UNCHANGED tree
  /\ pc' = "crlCoderWait"
  /\ g' = Counted([g EXCEPT !.tinv = ZeroCount, !.verdicts = << >>,
                            !.c0 = s.stats.todosCompleted], "coder")
  /\ UNCHANGED <<frames, retry, wasApproved, runPruneInterval, result,
                 pendingFile, verdictFile, hooks, evalMarker, planMarker,
                 dirty, backlog, bridge>>

ContinueLoopEmpty ==
  /\ pc = "crlHead"
  /\ ~hasIncompleteTodos
  /\ disk' = Save([s EXCEPT !.step = StepEvaluator])
  /\ evalMarker' = RemoveMarker(evalMarker)
  /\ hooks' = SetupEvaluatorStopHook(hooks)
  /\ s' = runClaudePhase([s EXCEPT !.step = StepEvaluator])
  /\ StartAgent("evaluator")
  /\ pc' = "crlEvalWait"
  /\ g' = Counted(g, "evaluator")
  /\ UNCHANGED <<frames, retry, wasApproved, runPruneInterval, result,
                 pendingFile, verdictFile, planMarker, gitVars, backlog,
                 bridge>>

ContinueCoderReturn ==
  /\ pc = "crlCoderWait"
  /\ Reaped
  /\ UNCHANGED <<s, disk, pendingFile, verdictFile, evalMarker, planMarker,
                 backlog, g, runPruneInterval>>
  /\ \E waitErr \in BOOLEAN :
     IF waitErr
     THEN /\ ResumeReturn("coder phase failed")
          /\ UNCHANGED <<gitVars, retry, wasApproved>>
     ELSE /\ \E ok \in BOOLEAN : checkCommitCreated(ok)
          /\ retry' = 0
          /\ wasApproved' = FALSE
          /\ pc' = "crlCriticHead"
          /\ UNCHANGED <<frames, result, hooks>>

ContinueCriticStart ==
  /\ pc = "crlCriticHead"
  /\ RetryLoopCond(retry)
  /\ disk' = Save(CriticState(s, retry))
  /\ verdictFile' = ClearCriticVerdict(verdictFile)
  /\ s' = runClaudePhase(CriticState(s, retry))
  /\ StartAgent("critic")
  /\ pc' = "crlCriticWait"
  /\ g' = Counted(g, "critic")
  /\ UNCHANGED <<frames, retry, wasApproved, runPruneInterval, result,
                 pendingFile, hooks, evalMarker, planMarker, gitVars, backlog,
                 bridge>>

ContinueRetriesExhausted ==
  /\ pc = "crlCriticHead"
  /\ ~RetryLoopCond(retry)
  /\ pc' = "crlNextTodo"
  /\ UNCHANGED <<frames, s, retry, wasApproved, runPruneInterval, result,
                 fileVars, gitVars, agent, backlog, bridge, g>>

ContinueCriticReturn ==
  /\ pc = "crlCriticWait"
  /\ Reaped
  /\ UNCHANGED <<disk, pendingFile, verdictFile, evalMarker, planMarker,
                 gitVars, backlog, runPruneInterval>>
  /\ \E waitErr \in BOOLEAN :
     IF waitErr
     THEN /\ ResumeReturn("critic phase failed")
          /\ UNCHANGED <<s, g, retry, wasApproved>>
     ELSE LET v == GetCriticVerdict IN
          /\ g' = [g EXCEPT !.verdicts = Append(@, v)]
          /\ UNCHANGED <<frames, result, hooks>>
          /\ CASE v = VerdictApproved ->
                    /\ s' = Accepted(s, "criticApprovals", retry)
                    /\ wasApproved' = TRUE
                    /\ pc' = "crlNextTodo"
                    /\ UNCHANGED retry
               [] v = VerdictMinorIssues ->
                    /\ s' = Accepted(s, "criticMinor", retry)
                    /\ wasApproved' = TRUE
                    /\ pc' = "crlNextTodo"
                    /\ UNCHANGED retry
               [] v = VerdictNeedsFixes ->
                    /\ s' = Rejected(s)
                    /\ IF FixerAllowed(retry)
                       THEN pc' = "crlFixerStart" /\ UNCHANGED retry
                       ELSE pc' = "crlCriticHead" /\ retry' = retry + 1
                    /\ UNCHANGED wasApproved
               [] OTHER ->
                    /\ pc' = "crlCriticHead"
                    /\ retry' = retry + 1
                    /\ UNCHANGED <<s, wasApproved>>

ContinueFixerStart ==
  /\ pc = "crlFixerStart"
  /\ disk' = Save([s EXCEPT !.step = StepCoder])
  /\ s' = runClaudePhase([s EXCEPT !.step = StepCoder,
                                   !.stats.fixAttempts = @ + 1])
  /\ StartAgent("fixer")
  /\ headMoved' = FALSE
  /\ UNCHANGED tree
  /\ pc' = "crlFixerWait"
  /\ g' = Counted(g, "fixer")
  /\ UNCHANGED <<frames, retry, wasApproved, runPruneInterval, result,
                 pendingFile, verdictFile, hooks, evalMarker, planMarker,
                 dirty, backlog, bridge>>

ContinueFixerReturn ==
  /\ pc = "crlFixerWait"
  /\ Reaped
  /\ UNCHANGED <<s, disk, pendingFile, verdictFile, evalMarker, planMarker,
                 backlog, g, wasApproved, runPruneInterval>>
  /\ \E waitErr \in BOOLEAN :
     IF waitErr
     THEN ResumeReturn("fixer phase failed") /\ UNCHANGED <<gitVars, retry>>
     ELSE /\ \E ok \in BOOLEAN : checkCommitCreated(ok)
          /\ retry' = retry + 1
          /\ pc' = "crlCriticHead"
          /\ UNCHANGED <<frames, result, hooks>>

ContinueNextTodo ==
  /\ pc = "crlNextTodo"
  /\ disk' = Save(s)
  /\ pc' = "crlHead"
  /\ g' = TaskDone(g)
  /\ UNCHANGED <<frames, s, retry, wasApproved, runPruneInterval, result,
                 pendingFile, verdictFile, hooks, evalMarker, planMarker,
                 pidFile, gitVars, agent, backlog, bridge>>

ContinueEvaluatorReturn ==
  /\ pc = "crlEvalWait"
  /\ Reaped
  /\ evalMarker' = RemoveMarker(evalMarker)
  /\ UNCHANGED <<pendingFile, verdictFile, planMarker, gitVars, backlog, g,
                 retry, wasApproved, runPruneInterval>>
  /\ \E waitErr \in BOOLEAN :
     IF waitErr
     THEN /\ Return("evaluator phase failed")
          /\ hooks' = RemoveStopHook(RemoveEvaluatorStopHook(hooks))
          /\ UNCHANGED <<s, disk>>
     ELSE IF hasIncompleteTodos
     THEN /\ pc' = "crlHead"
          /\ hooks' = RemoveEvaluatorStopHook(hooks)
          /\ UNCHANGED <<frames, s, result, disk>>
     ELSE /\ s' = [s EXCEPT !.step = StepDone]
          /\ disk' = Save(s')
          /\ Return("ok")
          /\ hooks' = RemoveStopHook(RemoveEvaluatorStopHook(hooks))

\* ---------------------------------------------------- orchestrator: status
\* runStatus: the record is shown (status.go 23-58)
StatusCmd ==
  /\ pc = "idle"
  /\ Return(IF ~Exists(disk) THEN "not initialized"
            ELSE IF ~LoadOk(disk) THEN "failed to load state"
            ELSE "ok")
  /\ s' = IF LoadOk(disk) THEN Load(disk) ELSE s
  /\ UNCHANGED <<retry, wasApproved, runPruneInterval, fileVars, gitVars,
                 agent, backlog, bridge, g>>

\* ------------------------------------------- orchestrator: a save in steps
\* os.WriteFile opens the file with O_TRUNC: until the data is written the
\* file is empty or holds a prefix of the document, and neither parses
WriteFileOpened == CorruptStateFile

\* runRun's first save (run.go 66-74), up to the opening of the file
RunSaveOpen ==
  /\ pc = "idle"
  /\ LoadOk(disk)
  /\ \E f \in PruneFlags : runPruneInterval' = f
  /\ g' = [NoGhost EXCEPT !.n0 = backlog]
  /\ s' = ResetForRun(Load(disk))
  /\ disk' = WriteFileOpened
  /\ pc' = "saveOpen"
  /\ UNCHANGED <<frames, retry, wasApproved, result, pendingFile,
                 verdictFile, hooks, evalMarker, planMarker, pidFile,
                 gitVars, agent, backlog, bridge>>

\* the data is written and runRun goes on to the task loop
RunSaveWrite ==
  /\ pc = "saveOpen"
  /\ disk' = Save(s)
  /\ hooks' = SetupStopHook(hooks)
  /\ frames' = frames + 1
  /\ pc' = "loopHead"
  /\ UNCHANGED <<s, retry, wasApproved, runPruneInterval, result,
                 pendingFile, verdictFile, evalMarker, planMarker, pidFile,
                 gitVars, agent, backlog, bridge, g>>

\* the operator interrupts the orchestrator, which handles no signal: the
\* process is gone and the next command finds what it left
Interrupt ==
  /\ pc = "saveOpen"
  /\ pc' = "idle"
  /\ result' = "interrupted"
  /\ UNCHANGED <<frames, s, retry, wasApproved, runPruneInterval, fileVars,
                 gitVars, agent, backlog, bridge, g>>

\* run on a record that is missing or does not load
RunEntryRefused ==
  /\ ~LoadOk(disk)
  /\ RunCmd

\* ----------------------------------------------------- orchestrator: init
\* runInit from the initial state on: the planner phase (resume.go 238-290)
InitCmd ==
  /\ pc = "idle"
  /\ disk' = Save(NewState)
  /\ planMarker' = RemoveMarker(planMarker)
  /\ hooks' = SetupPlannerStopHook(hooks)
  /\ StartAgent("planner")
  /\ pc' = "plannerWait"
  /\ g' = Counted(NoGhost, "planner")
  /\ UNCHANGED <<frames, s, retry, wasApproved, runPruneInterval, result,
                 pendingFile, verdictFile, evalMarker, gitVars, backlog,
                 bridge>>

\* commitPlannerOutput: stage everything, commit when something is staged
commitPlannerOutput(ok) ==
  /\ dirty' = IF dirty /\ ok THEN FALSE ELSE dirty
  /\ headMoved' = (headMoved \/ (dirty /\ ok))
  /\ UNCHANGED tree

PlannerReturn ==
  /\ pc = "plannerWait"
  /\ Reaped
  /\ hooks' = RemovePlannerStopHook(hooks)
  /\ planMarker' = RemoveMarker(planMarker)
  /\ \E waitErr \in BOOLEAN :
     IF waitErr
     THEN Return("failed to run planner") /\ UNCHANGED gitVars
     ELSE Return("ok") /\ \E ok \in BOOLEAN : commitPlannerOutput(ok)
  /\ UNCHANGED <<s, retry, wasApproved, runPruneInterval, disk, pendingFile,
                 verdictFile, evalMarker, backlog, g>>

\* ------------------------------------------------------------- the agent
Running(kinds) == agent.st = "running" /\ agent.kind \in kinds

AgentEdit ==
  /\ Running({"planner", "coder", "fixer"})
  /\ ~dirty
  /\ dirty' = TRUE
  /\ UNCHANGED <<orchVars, fileVars, headMoved, tree, agent, backlog,
                 bridge, g>>

AgentCommit ==
  /\ Running({"coder", "fixer"})
  /\ dirty
  /\ dirty' = FALSE
  /\ headMoved' = TRUE
  /\ UNCHANGED tree
  /\ UNCHANGED <<orchVars, fileVars, agent, backlog, bridge, g>>

\* the coder finishes its task and records whether work is left
AgentCompleteTask ==
  /\ Running({"coder"})
  /\ ~agent.did
  /\ backlog > 0
  /\ backlog' = backlog - 1
  /\ pendingFile' = IF backlog' > 0 THEN PendingYes ELSE PendingNo
  /\ agent' = [agent EXCEPT !.did = TRUE]
  /\ UNCHANGED <<orchVars, disk, verdictFile, hooks, evalMarker, planMarker,
                 pidFile, gitVars, bridge, g>>

AgentWriteVerdict ==
  /\ Running({"critic"})
  /\ ~agent.did
  /\ \E text \in VerdictTexts : verdictFile' = File(text)
  /\ agent' = [agent EXCEPT !.did = TRUE]
  /\ UNCHANGED <<orchVars, disk, pendingFile, hooks, evalMarker, planMarker,
                 pidFile, gitVars, backlog, bridge, g>>

\* the planner or evaluator adds a task on the user's request
AgentAddTask ==
  /\ Running({"planner", "evaluator"})
  /\ ~hasPendingTasks
  /\ backlog < MaxTasks
  /\ backlog' = backlog + 1
  /\ pendingFile' = PendingYes
  /\ UNCHANGED <<orchVars, disk, verdictFile, hooks, evalMarker, planMarker,
                 pidFile, gitVars, agent, bridge, g>>

\* the user confirms: the agent creates the phase's control marker
AgentCreateMarker ==
  /\ Running({"planner", "evaluator"})
  /\ ~agent.did
  /\ evalMarker' = (evalMarker \/ agent.kind = "evaluator")
  /\ planMarker' = (planMarker \/ agent.kind = "planner")
  /\ agent' = [agent EXCEPT !.did = TRUE]
  /\ UNCHANGED <<orchVars, disk, pendingFile, verdictFile, hooks, pidFile,
                 gitVars, backlog, bridge, g>>

\* the agent pauses: its runtime runs every registered Stop hook
AgentPause ==
  /\ agent.st = "running"
  /\ agent' = [agent EXCEPT !.st = "paused"]
  /\ \E input \in AgentInputs :
       bridge' = [c \in BridgeCmds |->
                    IF c \in Registered(hooks)
                    THEN NewBridge(input)
                    ELSE IdleBridge]
  /\ UNCHANGED <<orchVars, fileVars, gitVars, backlog, g>>

\* the user answers a paused agent once its hooks have let it stop
AgentResume ==
  /\ agent.st = "paused"
  /\ BridgesQuiet
  /\ agent' = [agent EXCEPT !.st = "running"]
  /\ bridge' = [c \in BridgeCmds |-> IdleBridge]
  /\ UNCHANGED <<orchVars, fileVars, gitVars, backlog, g>>

\* the agent ends by itself or the user quits it
AgentExit ==
  /\ agent.st = "running"
  /\ agent' = [agent EXCEPT !.st = "exited"]
  /\ UNCHANGED <<orchVars, fileVars, gitVars, backlog, bridge, g>>

\* ------------------------------------------------------------ the bridge
ReadFailed(input) == input.kind = "readerr"

\* variant: the stop_hook_active field is not looked at
StopHookIgnored(input) == FALSE

\* hookInput.StopHookActive after the optional json.Unmarshal
StopHookActive(input) == input.kind = "json" /\ input.sha

\* the handler goes on past its two early returns
Proceeds(input) == ~ReadFailed(input) /\ ~StopHookActive(input)

\* variant: no process is signalled
KillTargetNone == NoPid

\* KillClaude: the process the PID file names, if it names one
KillTarget == IF pidFile.exists /\ pidFile.valid THEN pidFile.pid ELSE NoPid

\* the interrupt reaches the agent if it is that process and still alive
Interrupted(p) ==
  IF p # NoPid /\ Alive /\ agent.pid = p
  THEN [agent EXCEPT !.st = "exited"]
  ELSE agent

\* variant: a failed read blocks the agent's stop
ReadErrorBlocks == outputBlock("Failed to read stdin")

\* the decision written when the read of stdin fails
ReadErrorOutput == outputAllow

\* the handler's end: KillClaude if it got that far, one decision, nil
Finished(b, kill) ==
  [b EXCEPT !.pc = "done",
            !.killed = kill,
            !.sig = IF kill THEN KillTarget ELSE NoPid,
            !.out = Append(@, IF ReadFailed(b.input) THEN ReadErrorOutput
                              ELSE outputAllow),
            !.ret = "nil"]

\* state.Exists() and state.Load() were reached and succeeded
StateLoaded(input) == Proceeds(input) /\ Exists(disk) /\ LoadOk(disk)

\* variant: the signal does not wait for the Run State
ContinueKillsAlways(input) == Proceeds(input)

\* runContinue needs the Run State before it signals (part_011 342-349)
ContinueKills(input) == StateLoaded(input)

\* getLastCommitHash: the short hash of HEAD
LastCommitHash == <<"h">>

\* runContinue (part_011 322-374); gitCommit returns nil on a clean tree,
\* and s.LastCommit is set whenever it returns nil
Continue ==
  LET b == bridge[ContinueCmd]
      kill == ContinueKills(b.input)
  IN
  /\ b.pc = "start"
  /\ \E ok \in BOOLEAN :
       LET tried == kill /\ disk.val.step = StepCoder
           committed == tried /\ dirty /\ ok
           noErr == tried /\ (~dirty \/ ok)
       IN
       /\ disk' = IF ~kill THEN disk
                  ELSE IF noErr
                  THEN Save([disk.val EXCEPT !.lastCommit = LastCommitHash])
                  ELSE Save(disk.val)
       /\ dirty' = IF committed THEN FALSE ELSE dirty
       /\ headMoved' = (headMoved \/ committed)
       /\ UNCHANGED tree
       /\ bridge' = [bridge EXCEPT ![ContinueCmd] =
                       Finished([b EXCEPT !.loaded = StateLoaded(b.input),
                                          !.commit =
                                           IF committed THEN "ok"
                                           ELSE IF tried /\ dirty THEN "failed"
                                           ELSE "none"],
                                kill)]
  /\ agent' = IF kill THEN Interrupted(KillTarget) ELSE agent
  /\ UNCHANGED <<orchVars, pendingFile, verdictFile, hooks, evalMarker,
                 planMarker, pidFile, backlog, g>>

\* runPlannerDone and runEvaluatorDone: kill only when the marker exists
MarkerKills(input, marker) == Proceeds(input) /\ marker

MarkerBridge(c, marker) ==
  LET b == bridge[c]
      kill == MarkerKills(b.input, marker)
  IN
  /\ b.pc = "start"
  /\ agent' = IF kill THEN Interrupted(KillTarget) ELSE agent
  /\ bridge' = [bridge EXCEPT ![c] = Finished(b, kill)]
  /\ UNCHANGED <<orchVars, fileVars, gitVars, backlog, g>>

IsPlanningComplete == planMarker
IsEvaluationComplete == evalMarker

PlannerDone == MarkerBridge(PlannerDoneCmd, IsPlanningComplete)

EvaluatorDone == MarkerBridge(EvaluatorDoneCmd, IsEvaluationComplete)

\* ------------------------------------------------------- specifications
Next ==
  \/ RunCmd
  \/ Restart
  \/ LoopPending
  \/ LoopEmpty
  \/ CoderReturn
  \/ CriticStart
  \/ RetriesExhausted
  \/ CriticReturn
  \/ FixerStart
  \/ FixerReturn
  \/ NextTaskPrune
  \/ NextTaskLoop
  \/ PrunerReturn
  \/ EvaluatorReturn
  \/ InitCmd
  \/ PlannerReturn
  \/ AgentEdit
  \/ AgentCommit
  \/ AgentCompleteTask
  \/ AgentWriteVerdict
  \/ AgentAddTask
  \/ AgentCreateMarker
  \/ AgentPause
  \/ AgentResume
  \/ AgentExit
  \/ Continue
  \/ PlannerDone
  \/ EvaluatorDone

Spec == Init /\ [][Next]_vars

\* the bridge commands run by hand or by a runtime, on any working directory
Steps == {StepCoder, StepCritic, StepEvaluator, StepDone}

InitBridge ==
  /\ pc = "idle"
  /\ frames = 0
  /\ s = NewState
  /\ retry = 0
  /\ wasApproved = FALSE
  /\ runPruneInterval = 0
  /\ result = "none"
  /\ disk \in {NoStateFile, CorruptStateFile}
             \cup {Save([NewState EXCEPT !.step = st]) : st \in Steps}
  /\ backlog = 0
  /\ pendingFile = NoFile
  /\ verdictFile = NoFile
  /\ hooks = << >>
  /\ evalMarker \in BOOLEAN
  /\ planMarker \in BOOLEAN
  /\ agent \in {NoAgent}
               \cup {[NewAgent(k) EXCEPT !.st = "paused"] : k \in AgentKinds}
  /\ pidFile \in {NoPidFile, InvalidPidFile, PidFileOf(StalePid)}
                 \cup IF agent = NoAgent THEN {} ELSE {PidFileOf(AgentPid)}
  /\ dirty \in BOOLEAN
  /\ headMoved = FALSE
  /\ tree = CleanTree
  /\ bridge = [c \in BridgeCmds |-> IdleBridge]
  /\ g = NoGhost

\* one bridge command is started with some standard input
HookCall ==
  /\ BridgesQuiet
  /\ g.calls < MaxCalls
  /\ \E c \in BridgeCmds, input \in HookInputs :
       bridge' = [d \in BridgeCmds |->
                    IF d = c THEN NewBridge(input) ELSE IdleBridge]
  /\ g' = [g EXCEPT !.calls = @ + 1]
  /\ UNCHANGED <<orchVars, fileVars, gitVars, agent, backlog>>

NextBridge ==
  \/ HookCall
  \/ Continue
  \/ PlannerDone
  \/ EvaluatorDone

SpecBridge == InitBridge /\ [][NextBridge]_vars

\* resume on a working directory an earlier run left behind
ResumeDisks ==
  {NoStateFile, CorruptStateFile, Save(NewState)}
    \cup {Save([NewState EXCEPT !.step = st, !.iteration = 0,
                                !.retryCount = r, !.stats = ZeroStats]) :
            st \in Steps, r \in {0, maxFixRetries - 1}}

InitResume ==
  /\ pc = "idle"
  /\ frames = 0
  /\ s = NewState
  /\ retry = 0
  /\ wasApproved = FALSE
  /\ runPruneInterval = 0
  /\ result = "none"
  /\ disk \in ResumeDisks
  /\ backlog \in 0..MaxTasks
  /\ pendingFile = IF backlog > 0 THEN PendingYes ELSE PendingNo
  /\ verdictFile = NoFile
  /\ hooks = << >>
  /\ evalMarker = FALSE
  /\ planMarker = FALSE
  /\ agent = NoAgent
  /\ pidFile = NoPidFile
  /\ dirty \in BOOLEAN
  /\ headMoved = FALSE
  /\ tree = CleanTree
  /\ bridge = [c \in BridgeCmds |-> IdleBridge]
  /\ g = NoGhost

NextResume ==
  \/ RunCmd
  \/ Restart
  \/ LoopPending
  \/ LoopEmpty
  \/ CoderReturn
  \/ CriticStart
  \/ RetriesExhausted
  \/ CriticReturn
  \/ FixerStart
  \/ FixerReturn
  \/ NextTaskPrune
  \/ NextTaskLoop
  \/ PrunerReturn
  \/ EvaluatorReturn
  \/ ResumeRefused
  \/ ResumeCoder
  \/ ResumeCritic
  \/ ResumeEvaluator
  \/ ResumeCoderReturn
  \/ ResumeCriticReturn
  \/ ResumeFixerStart
  \/ ResumeFixerReturn
  \/ ResumeEvaluatorReturn
  \/ ContinueLoopPending
  \/ ContinueLoopEmpty
  \/ ContinueCoderReturn
  \/ ContinueCriticStart
  \/ ContinueRetriesExhausted
  \/ ContinueCriticReturn
  \/ ContinueFixerStart
  \/ ContinueFixerReturn
  \/ ContinueNextTodo
  \/ ContinueEvaluatorReturn
  \/ AgentEdit
  \/ AgentCommit
  \/ AgentCompleteTask
  \/ AgentWriteVerdict
  \/ AgentAddTask
  \/ AgentCreateMarker
  \/ AgentPause
  \/ AgentResume
  \/ AgentExit
  \/ Continue
  \/ EvaluatorDone
  \/ StatusCmd

SpecResume == InitResume /\ [][NextResume]_vars

\* Save and Load applied to any State value
Texts == {NoText, <<"x">>}
GoalChars == {"a", "\"", "\\", "<"}
GoalTexts ==
  {NoText} \cup {<<c>> : c \in GoalChars}
           \cup {<<c, d>> : c \in GoalChars, d \in GoalChars}
GoStates ==
  [step : Steps \cup {""}, iteration : {0, 1}, maxIterations : {0, 3},
   goal : GoalTexts, testCmd : Texts, constraints : Texts,
   lastCommit : Texts, retryCount : {0, 2}, lastError : Texts,
   stats : {NilStats, ZeroStats, [ZeroStats EXCEPT !.claudeRuns = 1]}]

InitCodec ==
  /\ pc = "idle"
  /\ frames = 0
  /\ s \in GoStates
  /\ retry = 0
  /\ wasApproved = FALSE
  /\ runPruneInterval = 0
  /\ result = "none"
  /\ disk = NoStateFile
  /\ backlog = 0
  /\ pendingFile = NoFile
  /\ verdictFile = NoFile
  /\ hooks = << >>
  /\ evalMarker = FALSE
  /\ planMarker = FALSE
  /\ agent = NoAgent
  /\ pidFile = NoPidFile
  /\ dirty = FALSE
  /\ headMoved = FALSE
  /\ tree = CleanTree
  /\ bridge = [c \in BridgeCmds |-> IdleBridge]
  /\ g = NoGhost

\* s.Save()
CodecSave ==
  /\ pc = "idle"
  /\ disk' = Save(s)
  /\ pc' = "saved"
  /\ UNCHANGED <<frames, s, retry, wasApproved, runPruneInterval, result,
                 pendingFile, verdictFile, hooks, evalMarker, planMarker,
                 pidFile, gitVars, agent, backlog, bridge, g>>

\* s, err = state.Load()
CodecLoad ==
  /\ pc = "saved"
  /\ pc' = "loaded"
  /\ result' = IF LoadOk(disk) THEN "ok" ELSE "failed to load state"
  /\ s' = IF LoadOk(disk) THEN Load(disk) ELSE s
  /\ UNCHANGED <<frames, retry, wasApproved, runPruneInterval, fileVars,
                 gitVars, agent, backlog, bridge, g>>

NextCodec ==
  \/ CodecSave
  \/ CodecLoad

SpecCodec == InitCodec /\ [][NextCodec]_vars

\* run on a working directory whose pending_tasks holds any short text
PendingChars == {" ", "\n", "y", "e", "s"}
PendingTexts ==
  UNION {[1..n -> PendingChars] : n \in 0..5}
PendingFiles == {NoFile} \cup {File(cs) : cs \in PendingTexts}

InitPending ==
  /\ pc = "idle"
  /\ frames = 0
  /\ s = NewState
  /\ retry = 0
  /\ wasApproved = FALSE
  /\ runPruneInterval = 0
  /\ result = "none"
  /\ disk = Save(NewState)
  /\ backlog = 0
  /\ pendingFile \in PendingFiles
  /\ verdictFile = NoFile
  /\ hooks = << >>
  /\ evalMarker = FALSE
  /\ planMarker = FALSE
  /\ agent = NoAgent
  /\ pidFile = NoPidFile
  /\ dirty = FALSE
  /\ headMoved = FALSE
  /\ tree = CleanTree
  /\ bridge = [c \in BridgeCmds |-> IdleBridge]
  /\ g = NoGhost

NextPending ==
  \/ RunCmd
  \/ LoopPending
  \/ LoopEmpty

SpecPending == InitPending /\ [][NextPending]_vars

\* run's first save in steps, an interruption, and the commands that read
\* the record afterwards
InitSave ==
  /\ InitResume
  /\ LoadOk(disk)

NextSave ==
  \/ RunSaveOpen
  \/ RunSaveWrite
  \/ Interrupt
  \/ RunEntryRefused
  \/ StatusCmd
  \/ ResumeRefused

SpecSave == InitSave /\ [][NextSave]_vars

\* the run with what the processes guarantee: a started bridge handler runs
\* to its end, and cmd.Wait returns once the agent process is gone
Fairness ==
  /\ WF_vars(Continue)
  /\ WF_vars(CoderReturn)
  /\ WF_vars(CriticReturn)
  /\ WF_vars(FixerReturn)

SpecLive == Init /\ [][Next]_vars /\ Fairness

\* the run with its processes going on: runRun, a sequential program, takes
\* its next step whenever it can, and so does every started bridge handler
OrchStep ==
  \/ Restart
  \/ LoopPending
  \/ LoopEmpty
  \/ CoderReturn
  \/ CriticStart
  \/ RetriesExhausted
  \/ CriticReturn
  \/ FixerStart
  \/ FixerReturn
  \/ NextTaskPrune
  \/ NextTaskLoop
  \/ PrunerReturn
  \/ EvaluatorReturn

BridgeStep == Continue \/ PlannerDone \/ EvaluatorDone

FairnessRun == WF_vars(OrchStep) /\ WF_vars(BridgeStep)

SpecDone == Init /\ [][Next]_vars /\ FairnessRun

\* run and init in a directory where an earlier run may have left its
\* control markers
InitMarker ==
  /\ pc = "idle"
  /\ frames = 0
  /\ s = NewState
  /\ retry = 0
  /\ wasApproved = FALSE
  /\ runPruneInterval = 0
  /\ result = "none"
  /\ disk \in {NoStateFile, Save(NewState)}
  /\ backlog = 0
  /\ pendingFile \in {NoFile, PendingNo}
  /\ verdictFile = NoFile
  /\ hooks = << >>
  /\ evalMarker \in BOOLEAN
  /\ planMarker \in BOOLEAN
  /\ pidFile = NoPidFile
  /\ dirty = FALSE
  /\ headMoved = FALSE
  /\ tree = CleanTree
  /\ agent = NoAgent
  /\ bridge = [c \in BridgeCmds |-> IdleBridge]
  /\ g = NoGhost

SpecMarker == InitMarker /\ [][Next]_vars

\* SetupStopHook and RemoveStopHook called in any order on a settings file
\* with the user's own Stop hooks
MaxGroups == 2
MaxHooks == 2
RECURSIVE Flatten(_)
Flatten(file) ==
  IF file = << >> THEN << >> ELSE Head(file) \o Flatten(Tail(file))

CommandsOf(file) == Flatten(LoadExisting(file))

CountOf(cmds, cmd) == Cardinality({i \in 1..Len(cmds) : cmds[i] = cmd})

FileHooks == {FileHook(c, t) : c \in {ContinueCmd, "notify"}, t \in Timeouts}
HookGroups == UNION {[1..n -> FileHooks] : n \in 1..MaxHooks}
SettingsFiles ==
  {f \in UNION {[1..n -> HookGroups] : n \in 0..MaxGroups} :
     CountOf(CommandsOf(f), ContinueCmd) <= 1}

InitHooks ==
  /\ pc = "idle"
  /\ frames = 0
  /\ s = NewState
  /\ retry = 0
  /\ wasApproved = FALSE
  /\ runPruneInterval = 0
  /\ result = "none"
  /\ disk = Save(NewState)
  /\ backlog = 0
  /\ pendingFile = NoFile
  /\ verdictFile = NoFile
  /\ hooks \in SettingsFiles
  /\ evalMarker = FALSE
  /\ planMarker = FALSE
  /\ agent = NoAgent
  /\ pidFile = NoPidFile
  /\ dirty = FALSE
  /\ headMoved = FALSE
  /\ tree = CleanTree
  /\ bridge = [c \in BridgeCmds |-> IdleBridge]
  /\ g = NoGhost

HooksSetup ==
  /\ pc \in {"idle", "setup", "removed"}
  /\ hooks' = SetupStopHookFile(hooks)
  /\ pc' = "setup"
  /\ UNCHANGED <<frames, s, retry, wasApproved, runPruneInterval, result,
                 disk, pendingFile, verdictFile, evalMarker, planMarker,
                 pidFile, gitVars, agent, backlog, bridge, g>>

HooksRemove ==
  /\ pc \in {"idle", "setup", "removed"}
  /\ hooks' = RemoveStopHookFile(hooks)
  /\ pc' = "removed"
  /\ UNCHANGED <<frames, s, retry, wasApproved, runPruneInterval, result,
                 disk, pendingFile, verdictFile, evalMarker, planMarker,
                 pidFile, gitVars, agent, backlog, bridge, g>>

NextHooks == HooksSetup \/ HooksRemove

SpecHooks == InitHooks /\ [][NextHooks]_vars

\* --------------------------------------------- resume's cleaning of the tree
\* the tree an interrupted run leaves: the agent wrote or removed a path
TreeEdit ==
  /\ pc = "idle"
  /\ \E p \in Paths, c \in Contents :
       /\ tree.work[p] # c
       /\ tree' = [tree EXCEPT !.work[p] = c]
  /\ dirty' = hasUncommittedChanges(tree')
  /\ UNCHANGED <<orchVars, fileVars, headMoved, agent, backlog, bridge, g>>

\* forceCommit: nothing without changes; git add -A, then git commit, which
\* can fail and leave the changes staged
TreeForceCommit ==
  /\ pc = "idle"
  /\ hasUncommittedChanges(tree)
  /\ \E ok \in BOOLEAN :
       /\ tree' = IF ok THEN gitCommitIndex(gitAddAll(tree))
                  ELSE gitAddAll(tree)
       /\ headMoved' = (headMoved \/ ok)
  /\ dirty' = hasUncommittedChanges(tree')
  /\ UNCHANGED <<orchVars, fileVars, agent, backlog, bridge, g>>

\* runResume's cleaning step: with changes reported, git checkout . and
\* git clean -fd, either of which can fail and end the command
ResumeClean ==
  /\ pc = "idle"
  /\ \E failed \in {"none", "checkout", "clean"} :
       /\ failed # "none" => hasUncommittedChanges(tree)
       /\ tree' = IF ~hasUncommittedChanges(tree) \/ failed = "checkout"
                  THEN tree
                  ELSE IF failed = "clean" THEN gitCheckoutAll(tree)
                  ELSE cleanWorkingDirectory(tree)
       /\ pc' = IF failed = "none" THEN "cleaned" ELSE "exit"
       /\ result' = IF failed = "none" THEN result
                    ELSE "failed to clean working directory"
  /\ dirty' = hasUncommittedChanges(tree')
  /\ UNCHANGED <<frames, s, retry, wasApproved, runPruneInterval, fileVars,
                 headMoved, agent, backlog, bridge, g>>

\* an initialised directory whose run was interrupted
InitClean ==
  /\ pc = "idle"
  /\ frames = 0
  /\ s = NewState
  /\ retry = 0
  /\ wasApproved = FALSE
  /\ runPruneInterval = 0
  /\ result = "none"
  /\ disk = Save(NewState)
  /\ backlog = 0
  /\ pendingFile = NoFile
  /\ verdictFile = NoFile
  /\ hooks = << >>
  /\ evalMarker = FALSE
  /\ planMarker = FALSE
  /\ agent = NoAgent
  /\ pidFile = NoPidFile
  /\ dirty = FALSE
  /\ headMoved = FALSE
  /\ tree = CleanTree
  /\ bridge = [c \in BridgeCmds |-> IdleBridge]
  /\ g = NoGhost

NextClean == TreeEdit \/ TreeForceCommit \/ ResumeClean

SpecClean == InitClean /\ [][NextClean]_vars

\* C31: when resume has cleaned a tree with uncommitted changes, the tree
\* equals the last commit: every path holds its committed content, in the
\* working tree and in the index, and no untracked file is left
C31_CleanEqualsCommit ==
  [][(pc = "idle" /\ pc' = "cleaned")
       => (tree'.work = tree'.head /\ ~hasUncommittedChanges(tree'))]_vars

\* C31 on a tree without staged changes: the working tree is restored
C31_CleanWhenUnstaged ==
  [][(pc = "idle" /\ pc' = "cleaned" /\ tree.index = tree.head)
       => (tree' = [tree EXCEPT !.work = tree.head])]_vars

\* C31: after the cleaning the working tree is the index, whatever was staged
C31_CleanEqualsIndex ==
  [][(pc = "idle" /\ pc' = "cleaned") => tree'.work = tree'.index]_vars

\* ------------------------------------------------- reading a verdict file
\* verdict files: optional white space, a word, and what follows the word
VerdictLeads == {<< >>, <<" ">>, <<"\n">>}

VerdictWords ==
  {<< >>, ApprovedChars, NeedsFixesChars, MinorIssuesChars,
   <<"L", "G", "T", "M">>}

VerdictTails ==
  {<< >>, <<"\n">>, <<"\n", "f", "i", "x">>, <<" ", "o", "k">>, <<".">>,
   <<"_", "N", "O", "T">>}

VerdictFiles ==
  {NoFile} \cup {File(l \o w \o t) :
                   l \in VerdictLeads, w \in VerdictWords, t \in VerdictTails}

\* the second value GetCriticVerdict returns
VerdictContent(file) == IF file.exists THEN file.data ELSE << >>

InitVerdict ==
  /\ pc = "idle"
  /\ frames = 0
  /\ s = NewState
  /\ retry = 0
  /\ wasApproved = FALSE
  /\ runPruneInterval = 0
  /\ result = "none"
  /\ disk = Save(NewState)
  /\ backlog = 0
  /\ pendingFile = NoFile
  /\ verdictFile \in VerdictFiles
  /\ hooks = << >>
  /\ evalMarker = FALSE
  /\ planMarker = FALSE
  /\ agent = NoAgent
  /\ pidFile = NoPidFile
  /\ dirty = FALSE
  /\ headMoved = FALSE
  /\ tree = CleanTree
  /\ bridge = [c \in BridgeCmds |-> IdleBridge]
  /\ g = NoGhost

\* a call of GetCriticVerdict
ReadVerdict ==
  /\ pc = "idle"
  /\ pc' = "read"
  /\ result' = [verdict |-> GetCriticVerdict,
                content |-> VerdictContent(verdictFile)]
  /\ UNCHANGED <<frames, s, retry, wasApproved, runPruneInterval, fileVars,
                 gitVars, agent, backlog, bridge, g>>

NextVerdict == ReadVerdict

SpecVerdict == InitVerdict /\ [][NextVerdict]_vars

\* ------------------------------------- a bridge that outlives its agent
\* the identifier of the agent process of the phase after the coder's
LaterPid == 3

\* the agent process ends while a hook of its pause is still running: it is
\* quit, it crashes, or another hook of the same pause has signalled it
AgentExitPaused ==
  /\ agent.st = "paused"
  /\ agent' = [agent EXCEPT !.st = "exited"]
  /\ UNCHANGED <<orchVars, fileVars, gitVars, backlog, bridge, g>>

\* cmd.Wait returns when the agent process is gone, whatever its hooks do;
\* RunInteractive removes the PID file
WaitReturned ==
  /\ agent.st = "exited"
  /\ agent' = NoAgent
  /\ pidFile' = NoPidFile
  /\ UNCHANGED bridge

\* the coder phase returns to runRun (run.go 131-138)
RaceCoderReturn ==
  /\ pc = "coderWait"
  /\ WaitReturned
  /\ UNCHANGED <<disk, pendingFile, verdictFile, evalMarker, planMarker,
                 backlog>>
  /\ \E waitErr \in BOOLEAN :
     IF waitErr
     THEN /\ Return("coder phase failed")
          /\ hooks' = Deferred(hooks)
          /\ UNCHANGED <<s, gitVars, g, retry, wasApproved, runPruneInterval>>
     ELSE /\ \E ok \in BOOLEAN : checkCommitCreated(ok)
          /\ retry' = 0
          /\ wasApproved' = FALSE
          /\ pc' = "criticHead"
          /\ g' = [g EXCEPT !.oneEach = @ /\ agent.did]
          /\ UNCHANGED <<frames, s, runPruneInterval, result, hooks>>

\* the critic phase begins (run.go 139-152): a new agent process, whose
\* identifier replaces the coder's in the PID file
RaceCriticStart ==
  /\ pc = "criticHead"
  /\ RetryLoopCond(retry)
  /\ disk' = Save(CriticState(s, retry))
  /\ verdictFile' = ClearCriticVerdict(verdictFile)
  /\ s' = runClaudePhase(CriticState(s, retry))
  /\ agent' = [NewAgent("critic") EXCEPT !.pid = LaterPid]
  /\ pidFile' = PidFileOf(LaterPid)
  /\ pc' = "criticWait"
  /\ g' = Counted(g, "critic")
  /\ UNCHANGED <<frames, retry, wasApproved, runPruneInterval, result,
                 pendingFile, hooks, evalMarker, planMarker, gitVars, backlog,
                 bridge>>

NextRace ==
  \/ RunCmd
  \/ LoopPending
  \/ AgentEdit
  \/ AgentPause
  \/ AgentResume
  \/ AgentExit
  \/ AgentExitPaused
  \/ Continue
  \/ RaceCoderReturn
  \/ RaceCriticStart

SpecRace == Init /\ [][NextRace]_vars

\* --------------------------------------------------------------- claims
AllNeedsFixes ==
  /\ Len(g.verdicts) > 0
  /\ \A i \in DOMAIN g.verdicts : g.verdicts[i] = VerdictNeedsFixes

C2_FixedThenApproved ==
  ( /\ pc = "nextTask"
    /\ g.n0 = 1
    /\ s.iteration = 1
    /\ g.verdicts = <<VerdictNeedsFixes, VerdictApproved>> )
  =>
    /\ g.inv["coder"] = 1
    /\ g.inv["critic"] = 2
    /\ g.inv["fixer"] = 1
    /\ s.stats.fixAttempts = 1
    /\ s.stats.fixSuccesses = 1
    /\ s.stats.todosCompleted = 1
    /\ wasApproved

C2_Witness ==
  /\ pc = "nextTask"
  /\ g.n0 = 1
  /\ s.iteration = 1
  /\ backlog = 0
  /\ g.verdicts = <<VerdictNeedsFixes, VerdictApproved>>

\* C3: a run entered with N pending tasks, in which every coder phase
\* completes one task and every review says APPROVED, reaches its evaluator
\* (and its end) having invoked the coder N times and the critic N times
\* and the fixer never, with tasksCompleted = N.
C3_AllApproved ==
  ( /\ pc = "evalWait" \/ (pc = "exit" /\ result = "ok")
    /\ g.inv["planner"] = 0
    /\ g.allApproved
    /\ g.oneEach )
  =>
    /\ g.inv["coder"] = g.n0
    /\ g.inv["critic"] = g.n0
    /\ g.inv["fixer"] = 0
    /\ s.stats.todosCompleted = g.n0
    /\ s.stats.todosAttempted = g.n0

C3_Witness ==
  /\ pc = "exit"
  /\ result = "ok"
  /\ g.allApproved
  /\ g.oneEach
  /\ g.n0 = 2
  /\ g.inv["critic"] = 2
  /\ s.stats.todosCompleted = 2

\* C4: a finished invocation of any bridge command whose input had
\* stop_hook_active = true wrote the allow decision and sent no signal,
\* whatever the persisted phase, the markers and the number of invocations
\* before it.
C4_StopHookActiveAllows ==
  \A c \in BridgeCmds :
    (bridge[c].pc = "done" /\ bridge[c].input.kind = "json"
       /\ bridge[c].input.sha)
    =>
      /\ ~bridge[c].killed
      /\ bridge[c].sig = NoPid
      /\ bridge[c].commit = "none"
      /\ bridge[c].out = <<outputAllow>>

\* the second of two invocations, with everything there that would
\* otherwise have the agent signalled
C4_Witness ==
  /\ g.calls = 2
  /\ \E c \in BridgeCmds :
       bridge[c].pc = "done" /\ bridge[c].input.sha
  /\ LoadOk(disk)
  /\ evalMarker
  /\ planMarker
  /\ pidFile = PidFileOf(AgentPid)
  /\ agent.st = "paused"

\* C5 (as claimed): while an evaluator started by the run loop is alive and
\* has not created evaluation_complete, no finished bridge invocation has
\* signalled it.
C5_EvaluatorNotSignalled ==
  (agent.kind = "evaluator" /\ ~agent.did /\ ~evalMarker) =>
    \A c \in BridgeCmds :
      bridge[c].pc = "done" => ~bridge[c].killed

\* C6 (as claimed): in a planner or evaluator phase a finished bridge
\* invocation with stop_hook_active = false has signalled exactly if the
\* phase's marker exists, and has written allow.
C6_SignalIffMarker ==
  \A c \in BridgeCmds :
    (bridge[c].pc = "done" /\ ~bridge[c].input.sha
       /\ agent.kind \in {"planner", "evaluator"})
    =>
      /\ bridge[c].killed
           <=> IF agent.kind = "planner" THEN planMarker ELSE evalMarker
      /\ bridge[c].out = <<outputAllow>>

\* C7 (as claimed): in a coder, critic or fixer phase a finished _continue
\* with stop_hook_active = false has signalled the process of the PID file
\* and written allow, whether or not the Run State could be loaded.
C7_AlwaysSignals ==
  (bridge[ContinueCmd].pc = "done" /\ Proceeds(bridge[ContinueCmd].input)
     /\ agent.kind \in {"coder", "critic", "fixer"})
  =>
    /\ bridge[ContinueCmd].killed
    /\ bridge[ContinueCmd].sig = KillTarget
    /\ bridge[ContinueCmd].out = <<outputAllow>>

\* C7 (amended): such an invocation has signalled exactly if the Run State
\* record exists and loads; the signal went to the process the PID file
\* names, which, if it is the agent, has ended; allow was written either way.
C7_SignalsIfStateLoads ==
  (bridge[ContinueCmd].pc = "done" /\ Proceeds(bridge[ContinueCmd].input)
     /\ agent.kind \in {"coder", "critic", "fixer"})
  =>
    /\ bridge[ContinueCmd].killed <=> bridge[ContinueCmd].loaded
    /\ bridge[ContinueCmd].loaded <=> LoadOk(disk)
    /\ bridge[ContinueCmd].killed => bridge[ContinueCmd].sig = KillTarget
    /\ ~bridge[ContinueCmd].killed => bridge[ContinueCmd].sig = NoPid
    /\ (bridge[ContinueCmd].killed /\ KillTarget = agent.pid)
         => agent.st = "exited"
    /\ bridge[ContinueCmd].out = <<outputAllow>>

C7_Witness ==
  /\ bridge[ContinueCmd].pc = "done"
  /\ bridge[ContinueCmd].input = [kind |-> "json", sha |-> FALSE]
  /\ agent.kind = "fixer"
  /\ ~LoadOk(disk)
  /\ pidFile = PidFileOf(AgentPid)
  /\ agent.st = "paused"

\* C8: every finished bridge invocation has written exactly one decision,
\* allow, and returned nil: whatever its input, the Run State, the outcome
\* of the auto-commit and of the signal.
C8_AlwaysAllow ==
  \A c \in BridgeCmds :
    bridge[c].pc = "done" =>
      /\ Len(bridge[c].out) = 1
      /\ bridge[c].out[1] = outputAllow
      /\ bridge[c].out[1].decision # "block"
      /\ bridge[c].ret = "nil"

\* non-JSON input, a failed auto-commit and no PID file to signal
C8_Witness ==
  /\ bridge[ContinueCmd].pc = "done"
  /\ bridge[ContinueCmd].input.kind = "garbage"
  /\ bridge[ContinueCmd].commit = "failed"
  /\ bridge[ContinueCmd].killed
  /\ pidFile = NoPidFile
  /\ bridge[ContinueCmd].sig = NoPid

\* C9 (as claimed): while an agent invocation of the run loop is there, the
\* Run State record equals the State in memory.
C9_DiskEqualsMemory ==
  (pc \in {"coderWait", "criticWait", "fixerWait", "evalWait"}) =>
    /\ LoadOk(disk)
    /\ disk.val = s

\* C10 (as claimed): in a run the persisted phase is one this run has
\* started, and an agent invocation runs only while the persisted phase
\* names its phase (coder for a fixer).
C10_PhaseNamesStarted ==
  (frames > 0 /\ LoadOk(disk)) =>
    /\ disk.val.step = StepCoder => g.inv["coder"] + g.inv["fixer"] > 0
    /\ disk.val.step = StepCritic => g.inv["critic"] > 0
    /\ disk.val.step = StepEvaluator => g.inv["evaluator"] > 0
    /\ agent.kind \in {"coder", "fixer"} => disk.val.step = StepCoder
    /\ agent.kind = "critic" => disk.val.step = StepCritic
    /\ agent.kind = "evaluator" => disk.val.step = StepEvaluator
    /\ agent.kind # "pruner"

\* C10: the pruner runs while the record says critic
C10_PrunerUnderCritic ==
  ~(agent.kind = "pruner" /\ agent.st = "running"
      /\ disk.val.step = StepCritic)

IsYesPadded(cs) ==
  \E a \in 0..Len(cs) :
    /\ Len(cs) >= a + 3
    /\ \A i \in 1..a : cs[i] \in WhiteSpace
    /\ cs[a + 1] = "y" /\ cs[a + 2] = "e" /\ cs[a + 3] = "s"
    /\ \A i \in (a + 4)..Len(cs) : cs[i] \in WhiteSpace

\* C19: hasPendingTasks is true exactly if pending_tasks can be read and
\* holds yes between optional white space; the run loop starts a coder
\* phase only then, and with a missing, empty or otherwise-valued file it
\* goes to the evaluator.
C19_PendingIffYes ==
  LET yes == pendingFile.exists /\ IsYesPadded(pendingFile.data) IN
  /\ hasPendingTasks <=> yes
  /\ pc = "coderWait" => yes
  /\ pc = "evalWait" => ~yes

\* a file that begins with yes and is not yes: the evaluator is started
C19_Witness ==
  /\ pc = "evalWait"
  /\ pendingFile = File(<<"\n", "y", "e", "s", "s">>)
  /\ agent.kind = "evaluator"

\* C11: every Run State record on disk during run or resume has a retry
\* count of at least 0 and below maxFixRetries, and the count is 0, on disk
\* and in memory, while the coder of a task newly taken from the backlog
\* runs.
C11_RetryCountInRange ==
  LoadOk(disk) =>
    /\ Load(disk).retryCount \in 0..(maxFixRetries - 1)
    /\ pc \in {"coderWait", "crlCoderWait"} =>
         /\ Load(disk).retryCount = 0
         /\ s.retryCount = 0

\* resume found the critic with the last retry recorded, ran it and the
\* fixer, and took the next task
C11_Witness ==
  /\ pc = "crlCoderWait"
  /\ g.inv["critic"] = 1
  /\ g.inv["fixer"] = 1
  /\ s.stats.fixAttempts = 1
  /\ s.stats.todosAttempted = 1
  /\ Load(disk).retryCount = 0

\* C14 (as claimed): when resume is back at the head of the task loop,
\* every coder phase it ran, the resumed one included, has been reviewed,
\* every fixer it ran has been followed by a review, and the evaluator has
\* run a second time only with a coder phase in between.
C14_ResumeReplaysRemaining ==
  /\ (pc = "crlHead" /\ g.inv["coder"] > 0) => g.inv["critic"] > 0
  /\ (pc = "crlHead" /\ g.inv["fixer"] > 0)
       => g.inv["critic"] > g.inv["fixer"]
  /\ g.inv["evaluator"] > 1 => g.inv["coder"] > 0

\* C14: the resumed coder is not reviewed
C14_ResumedCoderReviewed ==
  (pc = "crlHead" /\ g.inv["coder"] > 0) => g.inv["critic"] > 0

\* C14: the resumed critic's fixer is not reviewed
C14_ResumedFixReviewed ==
  (pc = "crlHead" /\ g.inv["fixer"] > 0) => g.inv["critic"] > g.inv["fixer"]

\* C14: the resumed evaluator is run again
C14_EvaluatorOnce ==
  g.inv["evaluator"] > 1 => g.inv["coder"] > 0

\* C15 (as claimed): when a coder or fixer phase has ended and the commit
\* check is done, the working tree is clean, unless git refused the forced
\* commit (the check found the head unchanged and the tree dirty).
C15_PhaseBoundaryClean ==
  [][(pc \in {"coderWait", "fixerWait"} /\ pc' = "criticHead")
       => (~dirty' \/ (dirty /\ ~headMoved))]_vars

\* C15: a tree that was clean when the phase ended gets no forced commit
C15_CleanTreeNoCommit ==
  [][(pc \in {"coderWait", "fixerWait"} /\ pc' = "criticHead" /\ ~dirty)
       => (~dirty' /\ \A ok \in BOOLEAN : ~CommitForced(ok))]_vars

\* C12 (as claimed): a Run State record that exists loads, at every moment
\* of a save and after an interruption, and no command that reads it
\* fails to load it.
C12_SaveAtomic ==
  /\ Exists(disk) => LoadOk(disk)
  /\ result # "failed to load state"

\* C12: a command run after the interruption loads the record
C12_ReaderAfterInterrupt ==
  result # "failed to load state"

\* C18 (as claimed): a command started where no Run State record exists
\* ends with the not-initialized error.
C18_NotInitializedOnly ==
  [][(pc = "idle" /\ disk = NoStateFile)
       => (pc' = "exit" /\ result' = "not initialized")]_vars

\* C18: a command started where no Run State record exists ends at once
\* with the not-initialized error, or with the error of the claude CLI not
\* being installed, which run and resume look for first: no agent is started, no stop hook is
\* installed, and the record, the control files, the PID file and the
\* working tree are left as they were.
C18_NotInitialized ==
  [][(pc = "idle" /\ disk = NoStateFile)
       => /\ pc' = "exit"
          /\ result' \in {"not initialized", "claude not installed"}
          /\ agent' = NoAgent
          /\ UNCHANGED <<disk, pendingFile, verdictFile, hooks, evalMarker,
                         planMarker, pidFile, dirty, headMoved, backlog,
                         bridge>>]_vars

\* run was refused in a directory with tasks and uncommitted changes
C18_Witness ==
  /\ pc = "exit"
  /\ result = "not initialized"
  /\ disk = NoStateFile
  /\ g.n0 > 0
  /\ dirty
  /\ hooks = << >>
  /\ agent = NoAgent

C16_NoAgentAfterDone ==
  [][(LoadOk(disk) /\ Load(disk).step = StepDone) => UNCHANGED vars]_vars

StepSavedFor(at) ==
  CASE at = "coderWait" -> StepCoder
    [] at = "fixerWait" -> StepCoder
    [] at = "criticWait" -> StepCritic
    [] at = "evalWait" -> StepEvaluator

FailureOf(at) ==
  CASE at = "coderWait" -> "coder phase failed"
    [] at = "fixerWait" -> "fixer phase failed"
    [] at = "criticWait" -> "critic phase failed"
    [] at = "evalWait" -> "evaluator phase failed"

\* when the agent of a coder, critic, fixer or evaluator phase exits
\* abnormally, the run returns that phase's error at once: no further agent
\* is started, and the record on disk is left as it was saved before the
\* invocation, holding that phase (coder for the fixer, which is saved as
\* coder).
C17_FailureKeepsPhase ==
  [][(pc \in {"coderWait", "fixerWait", "criticWait", "evalWait"}
        /\ pc' = "exit" /\ result' # "ok")
       => /\ result' = FailureOf(pc)
          /\ disk' = disk
          /\ LoadOk(disk)
          /\ Load(disk).step = StepSavedFor(pc)
          /\ agent' = NoAgent
          /\ pidFile' = NoPidFile
          /\ g'.inv = g.inv]_vars

\* resume starts with the agent of the recorded phase
C17_ResumeReenters ==
  [][(pc = "idle" /\ agent' # NoAgent) => agent'.kind = Load(disk).step]_vars

PausedIn(w) ==
  /\ pc = w
  /\ agent.st = "paused"
  /\ bridge[ContinueCmd].pc = "start"
  /\ ~bridge[ContinueCmd].input.sha

\* C20: in a coder, critic or fixer phase, once the agent has paused and
\* its runtime has started the _continue hook with stop_hook_active false
\* (as it is at the first pause), the wait for the agent eventually ends
\* and the run loop goes on without the agent.
C20_PauseReturnsControl ==
  \A w \in {"coderWait", "criticWait", "fixerWait"} :
    PausedIn(w) ~> (pc # w /\ agent = NoAgent)

\* the hook has interrupted the paused fixer
C20_Witness ==
  /\ pc = "fixerWait"
  /\ agent.st = "exited"
  /\ bridge[ContinueCmd].pc = "done"
  /\ bridge[ContinueCmd].killed
  /\ ~bridge[ContinueCmd].input.sha
  /\ bridge[ContinueCmd].sig = AgentPid

\* the agent a run or init waits for at each blocking call
WaitKind(at) ==
  CASE at = "plannerWait" -> "planner"
    [] at = "coderWait" -> "coder"
    [] at = "criticWait" -> "critic"
    [] at = "fixerWait" -> "fixer"
    [] at = "prunerWait" -> "pruner"
    [] at = "evalWait" -> "evaluator"
    [] OTHER -> "none"

\* C21: an agent subprocess exists only while the orchestrator is blocked
\* in the call that started it; an agent is started only when no agent and
\* no PID file is left and the orchestrator is not waiting, that is after
\* the return of the phase before, commit check included; and the wait for
\* an agent ends only when its subprocess has exited.
C21_OneAgentNoOverlap ==
  /\ [](agent.kind = WaitKind(pc))
  /\ [][(agent.st \notin {"running", "paused"} /\ agent'.st = "running")
          => /\ agent = NoAgent
             /\ pidFile = NoPidFile
             /\ WaitKind(pc) = "none"
             /\ ~headMoved]_vars
  /\ [][(agent # NoAgent /\ agent' = NoAgent) => agent.st = "exited"]_vars

\* the critic runs after the coder's subprocess is gone and its changes
\* are committed
C21_Witness ==
  /\ pc = "criticWait"
  /\ agent.st = "running"
  /\ g.tinv["coder"] = 1
  /\ g.tinv["critic"] = 1
  /\ ~dirty
  /\ ~headMoved

\* C22: while a critic runs and has written nothing there is no verdict
\* file, whatever an earlier attempt, task or phase left; and the verdict
\* the run loop takes when the critic has returned is the one that critic
\* wrote, or UNKNOWN if it wrote nothing.
C22_VerdictOfThisAttempt ==
  /\ []((pc = "criticWait" /\ ~agent.did) => verdictFile = NoFile)
  /\ [][(pc = "criticWait" /\ pc' \notin {"criticWait", "exit"})
          => /\ Len(g'.verdicts) = Len(g.verdicts) + 1
             /\ g'.verdicts[Len(g'.verdicts)] =
                  IF agent.did THEN GetCriticVerdictOf(verdictFile)
                  ELSE VerdictUnknown]_vars

\* the second review of a task wrote nothing after a first that said
\* NEEDS_FIXES: the verdict taken is UNKNOWN
C22_Witness ==
  /\ pc = "criticHead"
  /\ g.verdicts = <<VerdictNeedsFixes, VerdictUnknown>>
  /\ g.tinv["fixer"] = 1
  /\ verdictFile = NoFile

\* the file is missing or begins with none of the three verdict words
NoVerdictIn(file) ==
  \/ ~file.exists
  \/ /\ ~HasPrefix(file.data, NeedsFixesChars)
     /\ ~HasPrefix(file.data, MinorIssuesChars)
     /\ ~HasPrefix(file.data, ApprovedChars)

\* C23: a review that left no verdict changes no counter and marks nothing
\* approved: the retry counter goes up by one and the run is back at the
\* head of the review loop, which starts the critic again, without a fixer,
\* while the counter is below maxFixRetries, and otherwise leaves the task;
\* a task whose reviews all left no verdict is left after maxFixRetries
\* reviews, not completed and never fixed.
C23_UnknownNeverSuccess ==
  /\ [][(pc = "criticWait" /\ pc' \notin {"criticWait", "exit"}
           /\ NoVerdictIn(verdictFile))
          => /\ s' = s
             /\ wasApproved' = wasApproved
             /\ retry' = retry + 1
             /\ pc' = "criticHead"]_vars
  /\ [][(pc = "criticHead" /\ pc' # "criticHead")
          => IF retry < maxFixRetries
             THEN pc' = "criticWait" /\ g'.inv["fixer"] = g.inv["fixer"]
             ELSE pc' = "nextTask" /\ s' = s]_vars
  /\ []((pc = "nextTask"
           /\ \A i \in 1..Len(g.verdicts) : g.verdicts[i] = VerdictUnknown)
          => /\ Len(g.verdicts) = maxFixRetries
             /\ g.tinv["critic"] = maxFixRetries
             /\ g.tinv["fixer"] = 0
             /\ ~wasApproved
             /\ s.stats.todosCompleted = g.c0)

\* a task is left after maxFixRetries reviews without a verdict, the last
\* of which wrote a text that is none
C23_Witness ==
  /\ pc = "nextTask"
  /\ Len(g.verdicts) = maxFixRetries
  /\ \A i \in 1..Len(g.verdicts) : g.verdicts[i] = VerdictUnknown
  /\ verdictFile.exists
  /\ s.stats.criticApprovals = 0
  /\ s.stats.criticMinor = 0
  /\ s.stats.todosCompleted = 0

\* C24 (as claimed): the review that accepts a task adds to fixSuccesses
\* only if a fixer ran for that task.
C24_FixSuccessNeedsFixer ==
  [][(pc = "criticWait" /\ pc' = "nextTask"
        /\ s'.stats.fixSuccesses > s.stats.fixSuccesses)
       => g.tinv["fixer"] > 0]_vars

\* C24: fixAttempts is the number of fixer invocations of the run
C24_FixAttemptsCounted ==
  (pc \notin {"idle", "exit", "plannerWait"})
    => s.stats.fixAttempts = g.inv["fixer"]

\* C24: a task accepted on the review after its fixer adds one to
\* fixSuccesses
C24_FixedAcceptedCounted ==
  [][(pc = "criticWait" /\ pc' = "nextTask" /\ g.tinv["fixer"] > 0)
       => s'.stats.fixSuccesses = s.stats.fixSuccesses + 1]_vars

StatFields == DOMAIN ZeroStats

\* C25 (as claimed): once a run command has reset the counters, no counter
\* decreases until the command returns, restarts of the task loop included.
C25_StatsMonotone ==
  [][(pc # "idle" /\ s.stats # NilStats)
       => \A k \in StatFields : s'.stats[k] >= s.stats[k]]_vars

\* C25: within one runRun call no counter decreases
C25_StatsMonotoneInFrame ==
  [][(pc \notin {"idle", "restart"} /\ s.stats # NilStats)
       => \A k \in StatFields : s'.stats[k] >= s.stats[k]]_vars

\* C26 (as claimed): once a run command has begun, the iteration on record
\* does not decrease until the command returns, restarts of the task loop
\* included.
C26_IterationMonotone ==
  [][pc # "idle" => Load(disk').iteration >= Load(disk).iteration]_vars

\* C26: within one runRun call the iteration on record does not decrease,
\* and taking a task adds exactly one
C26_IterationPerTask ==
  [][pc \notin {"idle", "restart"}
       => Load(disk').iteration =
            Load(disk).iteration
              + (IF pc = "loopHead" /\ pc' = "coderWait" THEN 1 ELSE 0)]_vars

\* C27 (as claimed): claudeRuns is the number of agents the runRun call at
\* hand has started: coders, critics, fixers, evaluators and pruners.
C27_RunsCountInvocations ==
  (s.stats # NilStats /\ g.inv["planner"] = 0)
    => s.stats.claudeRuns =
         g.inv["coder"] + g.inv["critic"] + g.inv["fixer"]
           + g.inv["evaluator"] + g.inv["pruner"]

\* C27: claudeRuns is the number of coders, critics, fixers and evaluators
\* started, whatever their exit
C27_RunsCountPhases ==
  (s.stats # NilStats /\ g.inv["planner"] = 0)
    => s.stats.claudeRuns =
         g.inv["coder"] + g.inv["critic"] + g.inv["fixer"]
           + g.inv["evaluator"]

\* C28 (as claimed): an invocation of the _continue bridge leaves the Run
\* State record as it found it.
C28_BridgeNeverWrites ==
  [][(bridge[ContinueCmd].pc = "start" /\ bridge'[ContinueCmd].pc = "done")
       => disk' = disk]_vars

\* C28: the phase, the iteration, the retry count and the stats on record
\* are the same after a bridge invocation
C28_BridgeKeepsProgress ==
  [][(bridge[ContinueCmd].pc = "start" /\ bridge'[ContinueCmd].pc = "done"
        /\ LoadOk(disk))
       => /\ LoadOk(disk')
          /\ Load(disk').step = Load(disk).step
          /\ Load(disk').iteration = Load(disk).iteration
          /\ Load(disk').retryCount = Load(disk).retryCount
          /\ Load(disk').stats = Load(disk).stats]_vars

\* C29: when the evaluator or the planner is started its control marker is
\* absent, whatever was left in the directory; and when the phase has
\* returned, with or without an error, the marker is absent and the
\* phase's own stop hook is no longer registered.
C29_MarkerAbsentAroundPhase ==
  /\ [][(pc # "evalWait" /\ pc' = "evalWait") => ~evalMarker']_vars
  /\ [][(pc # "plannerWait" /\ pc' = "plannerWait") => ~planMarker']_vars
  /\ [][(pc = "evalWait" /\ pc' # "evalWait")
          => (~evalMarker' /\ EvaluatorDoneCmd \notin Registered(hooks'))]_vars
  /\ [][(pc = "plannerWait" /\ pc' # "plannerWait")
          => (~planMarker' /\ PlannerDoneCmd \notin Registered(hooks'))]_vars

\* the evaluator, started where both markers had been left, created its
\* marker, failed, and the run has returned
C29_Witness ==
  /\ pc = "exit"
  /\ result = "evaluator phase failed"
  /\ ~evalMarker
  /\ planMarker
  /\ hooks = << >>
  /\ g.inv["evaluator"] = 1

\* the Stop hooks of the file whose command is not the _continue command
OtherHooks(file) ==
  SelectSeq(Flatten(file), LAMBDA h : h.command # ContinueCmd)

OtherCommands(file) ==
  SelectSeq(CommandsOf(file), LAMBDA c : c # ContinueCmd)

\* C30 (as claimed): the settings hold at most one _continue hook, none
\* after RemoveStopHook, and both operations keep the Stop hooks with any
\* other command as they are and in their order.
C30_StopHookAlgebra ==
  /\ [](CountOf(CommandsOf(hooks), ContinueCmd) <= 1)
  /\ [](pc = "removed" => CountOf(CommandsOf(hooks), ContinueCmd) = 0)
  /\ [][OtherHooks(hooks') = OtherHooks(hooks)]_vars

\* C30: at most one _continue hook, exactly one after SetupStopHook and
\* none after RemoveStopHook; the commands of the other Stop hooks stay,
\* in their order, and no group is left empty by a removal
C30_CommandsKept ==
  /\ [](CountOf(CommandsOf(hooks), ContinueCmd) <= 1)
  /\ [](pc = "setup" => CountOf(CommandsOf(hooks), ContinueCmd) = 1)
  /\ [](pc = "removed" => CountOf(CommandsOf(hooks), ContinueCmd) = 0)
  /\ [][OtherCommands(hooks') = OtherCommands(hooks)]_vars
  /\ [][pc' = "removed"
          => \A i \in 1..Len(hooks') : Len(hooks'[i]) > 0]_vars

\* the first token of a text: what stands between leading white space and
\* the next white space or the end
RECURSIVE TokenAtHead(_)
TokenAtHead(cs) ==
  IF cs = << >> \/ Head(cs) \in WhiteSpace THEN << >>
  ELSE <<Head(cs)>> \o TokenAtHead(Tail(cs))

FirstToken(cs) == TokenAtHead(TrimLeft(cs))

VerdictOfToken(tok) ==
  IF tok = ApprovedChars THEN VerdictApproved
  ELSE IF tok = NeedsFixesChars THEN VerdictNeedsFixes
  ELSE IF tok = MinorIssuesChars THEN VerdictMinorIssues
  ELSE VerdictUnknown

\* C32: GetCriticVerdict returns the verdict named by the first token of the
\* verdict file, Unknown for every other content and for a missing file, and
\* the full content as fix detail.
C32_ByFirstToken ==
  pc = "read" =>
    /\ result.verdict = IF verdictFile.exists
                        THEN VerdictOfToken(FirstToken(verdictFile.data))
                        ELSE VerdictUnknown
    /\ result.content = VerdictContent(verdictFile)

\* C32 for a file that begins with its first token: a token that names a
\* verdict gives that verdict, and Unknown is returned only when the token
\* names none; a missing file gives Unknown and the content is returned whole
C32_TokenAtStart ==
  (/\ pc = "read"
   /\ verdictFile.exists => TrimLeft(verdictFile.data) = verdictFile.data) =>
    LET named == IF verdictFile.exists
                 THEN VerdictOfToken(FirstToken(verdictFile.data))
                 ELSE VerdictUnknown
    IN /\ named # VerdictUnknown => result.verdict = named
       /\ result.verdict = VerdictUnknown => named = VerdictUnknown
       /\ ~verdictFile.exists => result.verdict = VerdictUnknown
       /\ result.content = VerdictContent(verdictFile)

\* the flag's interval, todosCompleted a positive multiple of it
AtMultiple ==
  /\ PruneIntervalOf(runPruneInterval) > 0
  /\ s.stats.todosCompleted > 0
  /\ s.stats.todosCompleted % PruneIntervalOf(runPruneInterval) = 0

\* C33: with the interval p > 0 the pruner is started when the task that
\* just ended brought todosCompleted to a positive multiple of p, and only
\* then, so not again before todosCompleted has grown by p; with the
\* interval disabled it is never started; and whatever the pruner's exit,
\* the loop goes on.
C33_PruneOncePerInterval ==
  [][/\ (pc = "nextTask" /\ pc' # pc)
          => ((pc' = "prunerWait") <=> (AtMultiple /\ wasApproved))
     /\ pc' = "prunerWait" => pc \in {"nextTask", "prunerWait"}
     /\ pc = "prunerWait" => pc' \in {"prunerWait", "loopHead"}]_vars

\* C33: the pruner is started at a task boundary exactly when todosCompleted
\* is a positive multiple of the interval there, whether the task that ended
\* was completed or abandoned; never with the interval disabled; and the
\* loop goes on after it
C33_PruneAtMultiple ==
  [][/\ (pc = "nextTask" /\ pc' # pc)
          => ((pc' = "prunerWait") <=> AtMultiple)
     /\ pc' = "prunerWait" => pc \in {"nextTask", "prunerWait"}
     /\ pc = "prunerWait" => pc' \in {"prunerWait", "loopHead"}]_vars

\* C34: in every state of the run loop fixSuccesses <= fixAttempts, whatever
\* the verdicts are.
C34_SuccessesWithinAttempts ==
  (pc \notin {"idle", "exit", "plannerWait"} /\ s.stats # NilStats)
    => s.stats.fixSuccesses <= s.stats.fixAttempts

\* C34: every fix success belongs to a completed task
C34_SuccessesWithinCompleted ==
  (pc \notin {"idle", "exit", "plannerWait"} /\ s.stats # NilStats)
    => s.stats.fixSuccesses <= s.stats.todosCompleted

TaskPcs ==
  {"coderWait", "criticHead", "criticWait", "fixerStart", "fixerWait",
   "nextTask"}

C37_SignalOnlyOwnAgent ==
  [][\A c \in BridgeCmds :
       (bridge[c].pc = "start" /\ bridge'[c].pc = "done"
          /\ bridge'[c].sig # NoPid)
         => (agent.st = "paused" /\ agent.pid = bridge'[c].sig)]_vars

\* C37: a bridge signals the process the PID file names at that moment, and
\* the agent whose pause started it when that agent is still paused
C37_SignalsPidFile ==
  [][\A c \in BridgeCmds :
       (bridge[c].pc = "start" /\ bridge'[c].pc = "done"
          /\ bridge'[c].sig # NoPid)
         => /\ pidFile = PidFileOf(bridge'[c].sig)
            /\ agent.st = "paused" => agent.pid = bridge'[c].sig]_vars

\* C37 (as claimed), its first part alone: no bridge signals the agent of a
\* phase that began after the pause that started the bridge.
C37_NeverLaterPhase ==
  [][\A c \in BridgeCmds :
       (bridge[c].pc = "start" /\ bridge'[c].pc = "done")
         => ~(agent.st = "running" /\ agent.pid = bridge'[c].sig)]_vars

\* the agent of a coder, critic or fixer phase was ended by the signal of
\* its _continue bridge, and runRun is about to get the phase's result
EndedByBridge ==
  /\ pc \in {"coderWait", "criticWait", "fixerWait"}
  /\ agent.st = "exited"
  /\ bridge[ContinueCmd].pc = "done"
  /\ bridge[ContinueCmd].killed
  /\ bridge[ContinueCmd].sig = agent.pid

\* C38 (as claimed): a coder, critic or fixer phase whose agent the bridge
\* ended is a completed phase: the run does not return with a failed phase
\* but goes on in the loop.
C38_KilledPhaseCompletes ==
  [][(EndedByBridge /\ pc' # pc) => pc' # "exit"]_vars

\* C38: such a phase either makes the run return with the phase's failure,
\* when the wait for the agent reports an error, or is a completed phase:
\* the loop goes on, after a coder or fixer with the commit check done
C38_KilledPhaseCompletesOrFails ==
  [][(EndedByBridge /\ pc' # pc) =>
       \/ /\ pc' = "exit"
          /\ result' \in {"coder phase failed", "critic phase failed",
                          "fixer phase failed"}
       \/ /\ pc' \in {"criticHead", "fixerStart", "nextTask"}
          /\ pc \in {"coderWait", "fixerWait"} =>
               (pc' = "criticHead" /\ ~headMoved')]_vars

RunDone ==
  /\ pc = "exit"
  /\ result = "ok"
  /\ LoadOk(disk)
  /\ Load(disk).step = StepDone

\* C40: if no phase of the run fails, every agent invocation comes to its
\* end, and the pending signal eventually says no and stays so, then a run
\* that has entered its task loop eventually saves the phase done and
\* returns, also after a task abandoned at the retry ceiling.
C40_RunFinishes ==
  ( /\ [](pc = "exit" => result = "ok")
    /\ []<>(~Alive)
    /\ <>[](~hasPendingTasks) )
  => (pc = "loopHead" ~> RunDone)

\* the run is done after it abandoned a task at the retry ceiling
C40_Witness ==
  /\ RunDone
  /\ s.stats.todosAttempted = 1
  /\ s.stats.todosCompleted = 0
  /\ s.stats.criticRejections = maxFixRetries

====
